---- MODULE Spec2Model ----
(***************************************************************************)
(* A model of pypeit/coadd3d.py: the subpixel accumulation pass            *)
(* (subpixellate), the cube writer (generate_cube_subpixel) and the        *)
(* control flow of SlicerIFUCoAdd3D (constructor, load, run_align,         *)
(* compute_weights, coadd).                                                *)
(*                                                                         *)
(* Floating point numbers are modelled as exact rationals <<n, d>> with    *)
(* d > 0 and gcd(n, d) = 1, so every division of the code is a division    *)
(* here.                                                                   *)
(***************************************************************************)
EXTENDS Integers, Sequences, FiniteSets, TLC

(***************************************************************************)
(* Bounds of the model.                                                    *)
(***************************************************************************)
\* largest spec_subpixel / spat_subpixel drawn for an accumulation pass
MaxSubpixel == 2
\* largest number of samples selected for one (exposure, slit) pair
MaxPix == 3
\* the square root of a float is kept to 1/SqrtRes of the unit of its argument
SqrtRes == 8
\* largest number of spec2d files handed to one CoAdd3D
MaxFiles == 2

(***************************************************************************)
(* Exact rational arithmetic.                                              *)
(***************************************************************************)
RECURSIVE GCD(_, _)
GCD(a, b) == IF b = 0 THEN a ELSE GCD(b, a % b)

Abs(a) == IF a < 0 THEN -a ELSE a

Rat(n, d) ==
    LET over(s, g) == <<(s * n) \div g, (s * d) \div g>>
    IN  over(IF d < 0 THEN -1 ELSE 1, GCD(Abs(n), Abs(d)))

RInt(n) == <<n, 1>>
RZero == <<0, 1>>
ROne == <<1, 1>>
RAdd(a, b) == Rat(a[1] * b[2] + b[1] * a[2], a[2] * b[2])
RSub(a, b) == Rat(a[1] * b[2] - b[1] * a[2], a[2] * b[2])
RMul(a, b) == Rat(a[1] * b[1], a[2] * b[2])
RDiv(a, b) == Rat(a[1] * b[2], a[2] * b[1])
RLt(a, b) == a[1] * b[2] < b[1] * a[2]
RLe(a, b) == a[1] * b[2] <= b[1] * a[2]
RFloor(a) == a[1] \div a[2]
RHalf == <<1, 2>>

RECURSIVE RSum(_)
RSum(s) == IF s = <<>> THEN RZero ELSE RAdd(Head(s), RSum(Tail(s)))

(***************************************************************************)
(* numpy helpers on flat arrays (sequences, 1-based here).                 *)
(***************************************************************************)
\* the array s with every element computed (the value is s)
Arr(s) == s \o <<>>

\* np.repeat(a, n): every element n times in a row
np_repeat(a, n) == Arr([e \in 1..(Len(a) * n) |-> a[((e - 1) \div n) + 1]])

\* np.add.outer(a, b).flatten(): a-major
add_outer_flat(a, b) ==
    Arr([e \in 1..(Len(a) * Len(b)) |->
            RAdd(a[((e - 1) \div Len(b)) + 1], b[((e - 1) % Len(b)) + 1])])

\* the subsequence of s at the positions of the sequence ix
Take(s, ix) == Arr([e \in 1..Len(ix) |-> s[ix[e]]])

\* the elements of a finite set of integers, in increasing order
RECURSIVE Ascending(_)
Ascending(S) ==
    IF S = {} THEN <<>>
    ELSE LET first(m) == <<m>> \o Ascending(S \ {m})
         IN  first(CHOOSE x \in S : \A y \in S : x <= y)

\* np.argsort of distinct rationals: the r-th entry is the position of the
\* r-th smallest element
np_argsort(xs) ==
    Arr([r \in 1..Len(xs) |->
            CHOOSE i \in 1..Len(xs) :
                Cardinality({j \in 1..Len(xs) : RLt(xs[j], xs[i])}) = r - 1])

\* utils.inverse: (x > 0) / (|x| + (x == 0))
inverse(x) == IF RLt(RZero, x) THEN RDiv(ROne, x) ELSE RZero

(***************************************************************************)
(* scipy.interpolate.interp1d(x, y, kind='linear', bounds_error=False,     *)
(* fill_value='extrapolate') evaluated at t; x is sorted and has at least  *)
(* two distinct entries.                                                   *)
(***************************************************************************)
interp1d(x, y, t) ==
    LET line(lo, hi) ==
            RAdd(RMul(RDiv(RSub(y[hi], y[lo]), RSub(x[hi], x[lo])), RSub(t, x[lo])),
                 y[lo])
        \* the segment below the insertion point ins, clipped to the knots
        segment(n, ins) ==
            line(IF ins < 1 THEN 1 ELSE IF ins > n - 1 THEN n - 1 ELSE ins,
                 (IF ins < 1 THEN 1 ELSE IF ins > n - 1 THEN n - 1 ELSE ins) + 1)
        \* np.searchsorted(x, t): the number of knots strictly below t
    IN  segment(Len(x), Cardinality({i \in 1..Len(x) : RLt(x[i], t)}))

(***************************************************************************)
(* np.polyfit(x, y, 1): the least-squares line, <<slope, intercept>>; the  *)
(* x are not all equal.  np.polyval evaluates it.                          *)
(***************************************************************************)
polyfit(x, y) ==
    LET line(n, Sx, Sy, slope) == <<slope, RDiv(RSub(Sy, RMul(slope, Sx)), n)>>
        fit(n, Sx, Sy, Sxx, Sxy) ==
            line(n, Sx, Sy,
                 RDiv(RSub(RMul(n, Sxy), RMul(Sx, Sy)), RSub(RMul(n, Sxx), RMul(Sx, Sx))))
    IN  fit(RInt(Len(x)), RSum(x), RSum(y),
            RSum(Arr([i \in 1..Len(x) |-> RMul(x[i], x[i])])),
            RSum(Arr([i \in 1..Len(x) |-> RMul(x[i], y[i])])))

polyval(c, t) == RAdd(RMul(c[1], t), c[2])

(***************************************************************************)
(* External collaborators of an accumulation pass, by their interface.     *)
(*   tilts[fr]        : the tilt image; its value at detector pixel        *)
(*                      (specpos, spatpos) times (nspec - 1) is the        *)
(*                      fractional spectral position of the pixel          *)
(*   slits[fr]        : [spat_id : the slit identifiers in order,          *)
(*                       nspec : the number of spectral rows]              *)
(*   astrom_trans[fr] : the alignment transform of each slit, detector     *)
(*                      position -> spatial coordinate                     *)
(*   output_wcs       : [crval, cdelt], world -> voxel coordinate          *)
(***************************************************************************)
\* tilts[specpos, spatpos] of a tilt image with the given row tilt
tilts_at(t, specpos, spatpos) ==
    RDiv(RAdd(RInt(specpos), RMul(t.slope, RInt(spatpos))), RInt(t.nspec - 1))

\* AlignmentSplines.transform(sl, spatpix, specpix)
transform(at, sl, spatpix, specpix) == RSub(spatpix, at.centre[sl + 1])

\* astropy's WCS.wcs_world2pix(world, 0) of a linear coordinate system
wcs_world2pix(w, world) ==
    <<RDiv(RSub(world[1], w.crval[1]), w.cdelt[1]),
      RDiv(RSub(world[2], w.crval[2]), w.cdelt[2]),
      RDiv(RSub(world[3], w.crval[3]), w.cdelt[3])>>

(***************************************************************************)
(* subpixellate: the sub-sample offsets (lines 1680-1687).                 *)
(***************************************************************************)
\* np.arange(0.5/n, 1, 1/n), without the - 0.5
subpixel_offs_uncentred(n) == Arr([j \in 1..n |-> Rat(2 * (j - 1) + 1, 2 * n)])

\* np.arange(0.5/n, 1, 1/n) - 0.5
subpixel_offs(n) == Arr([j \in 1..n |-> RSub(Rat(2 * (j - 1) + 1, 2 * n), RHalf)])

spec_offs(a) == subpixel_offs(a.spec_subpixel)
spat_offs(a) == subpixel_offs(a.spat_subpixel)

num_subpixels(a) == a.spec_subpixel * a.spat_subpixel

\* np.meshgrid(spat_offs, spec_offs), each flattened (row = spectral offset)
spat_x_flat(a) ==
    LET flat(offs) ==
            Arr([m \in 1..num_subpixels(a) |-> offs[((m - 1) % a.spat_subpixel) + 1]])
    IN  flat(spat_offs(a))
spec_y_flat(a) ==
    LET flat(offs) ==
            Arr([m \in 1..num_subpixels(a) |-> offs[((m - 1) \div a.spat_subpixel) + 1]])
    IN  flat(spec_offs(a))

\* the area of a sub-pixel when only the spectral split is counted
area_spec_only(a) == Rat(1, a.spec_subpixel)

area(a) == Rat(1, num_subpixels(a))

all_wght_subpix(a) ==
    LET scaled(ar) == Arr([i \in 1..Len(a.all_wghts) |-> RMul(a.all_wghts[i], ar)])
    IN  scaled(area(a))

all_var(a) == Arr([i \in 1..Len(a.all_ivar) |-> inverse(RInt(a.all_ivar[i]))])

(***************************************************************************)
(* subpixellate: one iteration of the loop over exposures and slits        *)
(* (lines 1699-1724), for exposure fr (from 0) and slit number sl (from 0).*)
(***************************************************************************)
\* np.where((all_spatid == spatid) & (all_idx == fr))
this_sl(a, fr, sl) ==
    Ascending({i \in 1..Len(a.all_sci) :
                  /\ a.all_spatid[i] = a.slits[fr + 1].spat_id[sl + 1]
                  /\ a.all_idx[i] = fr})

yspl(a, fr, sl) ==
    LET of(sel) ==
            Arr([k \in 1..Len(sel) |->
                RMul(tilts_at(a.tilts[fr + 1], a.all_specpos[sel[k]],
                              a.all_spatpos[sel[k]]),
                     RInt(a.slits[fr + 1].nspec - 1))])
    IN  of(this_sl(a, fr, sl))

tiltpos(a, fr, sl) == add_outer_flat(yspl(a, fr, sl), spec_y_flat(a))

\* the knots <<yspl[asrt], wspl[asrt]>> of the interpolant wave_spl
wave_spl(a, fr, sl) ==
    LET sorted(ys, wspl, asrt) == <<Take(ys, asrt), Take(wspl, asrt)>>
        knots(ys, wspl) == sorted(ys, wspl, np_argsort(ys))
    IN  knots(yspl(a, fr, sl), Take(a.all_wave, this_sl(a, fr, sl)))

spat_xx(a, fr, sl) ==
    LET of(sel) ==
            add_outer_flat(Arr([k \in 1..Len(sel) |-> RInt(a.all_spatpos[sel[k]])]),
                           spat_x_flat(a))
    IN  of(this_sl(a, fr, sl))

spec_yy(a, fr, sl) ==
    LET of(sel) ==
            add_outer_flat(Arr([k \in 1..Len(sel) |-> RInt(a.all_specpos[sel[k]])]),
                           spec_y_flat(a))
    IN  of(this_sl(a, fr, sl))

spatpos_subpix(a, fr, sl) ==
    LET of(xx, yy) ==
            Arr([e \in 1..Len(xx) |->
                transform(a.astrom_trans[fr + 1], sl, xx[e], yy[e])])
    IN  of(spat_xx(a, fr, sl), spec_yy(a, fr, sl))

spatpos(a, fr, sl) ==
    LET of(sel) ==
            Arr([k \in 1..Len(sel) |->
                transform(a.astrom_trans[fr + 1], sl,
                          RInt(a.all_spatpos[sel[k]]), RInt(a.all_specpos[sel[k]]))])
    IN  of(this_sl(a, fr, sl))

ra_coeff(a, fr, sl) == polyfit(spatpos(a, fr, sl), Take(a.all_ra, this_sl(a, fr, sl)))
dec_coeff(a, fr, sl) == polyfit(spatpos(a, fr, sl), Take(a.all_dec, this_sl(a, fr, sl)))

\* this_ra, this_dec and this_wave of the sub-samples, N in a row for each
\* pixel
this_world(a, fr, sl) ==
    LET of(sub, rc, dc, tp, spl) ==
            Arr([e \in 1..Len(sub) |->
                <<polyval(rc, sub[e]), polyval(dc, sub[e]),
                  interp1d(spl[1], spl[2], tp[e])>>])
    IN  of(spatpos_subpix(a, fr, sl), ra_coeff(a, fr, sl), dec_coeff(a, fr, sl),
           tiltpos(a, fr, sl), wave_spl(a, fr, sl))

\* the voxel coordinates of the sub-samples
vox_coord(a, fr, sl) ==
    LET of(world) == Arr([e \in 1..Len(world) |-> wcs_world2pix(a.output_wcs, world[e])])
    IN  of(this_world(a, fr, sl))

(***************************************************************************)
(* The voxel grid: bins is the triple of edge arrays, outshape the number  *)
(* of voxels on each axis, binrng the first and last edge of each axis.    *)
(* Voxels are numbered from 0 on each axis.                                *)
(***************************************************************************)
outshape(bins) == <<Len(bins[1]) - 1, Len(bins[2]) - 1, Len(bins[3]) - 1>>
binrng(bins) ==
    <<<<bins[1][1], bins[1][Len(bins[1])]>>,
      <<bins[2][1], bins[2][Len(bins[2])]>>,
      <<bins[3][1], bins[3][Len(bins[3])]>>>>

Voxels(shape) == (0..(shape[1] - 1)) \X (0..(shape[2] - 1)) \X (0..(shape[3] - 1))

zeros(shape) == [v \in Voxels(shape) |-> RZero]

\* whether the import of fast_histogram at the head of the module succeeded
\* (the global histogramdd is None when it did not)
VARIABLE fast_histogram

\* fast_histogram's bin of x on an axis of n equal bins over [lo, hi), or -1
\* when x is outside the range
axis_bin(x, n, rng) ==
    IF RLe(rng[1], x) /\ RLt(x, rng[2])
    THEN RFloor(RDiv(RMul(RSub(x, rng[1]), RInt(n)), RSub(rng[2], rng[1])))
    ELSE -1

voxel_of(coord, shape, rng) ==
    <<axis_bin(coord[1], shape[1], rng[1]),
      axis_bin(coord[2], shape[2], rng[2]),
      axis_bin(coord[3], shape[3], rng[3])>>

in_grid(coord, shape, rng) == \A c \in 1..3 : axis_bin(coord[c], shape[c], rng[c]) >= 0

\* fast_histogram.histogramdd(sample, bins=shape, range=rng, weights=weights)
histogramdd(sample, shape, rng, weights) ==
    LET binned(vox) ==
            [v \in Voxels(shape) |->
                RSum(Take(weights, Ascending({e \in 1..Len(sample) : vox[e] = v})))]
    IN  binned(Arr([e \in 1..Len(sample) |-> voxel_of(sample[e], shape, rng)]))

\* np.min and np.max of a non-empty array
RECURSIVE RMinOf(_)
RMinOf(xs) ==
    IF Len(xs) = 1 THEN xs[1]
    ELSE LET least(m) == IF RLt(xs[1], m) THEN xs[1] ELSE m IN least(RMinOf(Tail(xs)))

RECURSIVE RMaxOf(_)
RMaxOf(xs) ==
    IF Len(xs) = 1 THEN xs[1]
    ELSE LET most(m) == IF RLt(m, xs[1]) THEN xs[1] ELSE m IN most(RMaxOf(Tail(xs)))

\* the bin np.histogramdd gives the coordinate coord when it is called with
\* the coordinates sample and without a range: each axis runs from the
\* smallest to the largest coordinate of the call's own sample (widened by
\* 1/2 on each side when they are equal) in equal bins, the last bin closed
\* on the right
np_voxel_of(coord, shape, sample) ==
    LET edges(xs) ==
            IF RMinOf(xs) = RMaxOf(xs)
            THEN <<RSub(RMinOf(xs), Rat(1, 2)), RAdd(RMaxOf(xs), Rat(1, 2))>>
            ELSE <<RMinOf(xs), RMaxOf(xs)>>
        bin(x, n, rng) ==
            IF x = rng[2] THEN n - 1
            ELSE RFloor(RDiv(RMul(RSub(x, rng[1]), RInt(n)), RSub(rng[2], rng[1])))
        axis(c) == bin(coord[c], shape[c], edges(Arr([e \in 1..Len(sample) |-> sample[e][c]])))
    IN  <<axis(1), axis(2), axis(3)>>

\* np.histogramdd(sample, bins=shape, weights=weights)[0]
np_histogramdd(sample, shape, weights) ==
    LET binned(vox) ==
            [v \in Voxels(shape) |->
                RSum(Take(weights, Ascending({e \in 1..Len(sample) : vox[e] = v})))]
    IN  binned(Arr([e \in 1..Len(sample) |-> np_voxel_of(sample[e], shape, sample)]))

cube_add(c1, c2) == [v \in DOMAIN c1 |-> RAdd(c1[v], c2[v])]

(***************************************************************************)
(* subpixellate: the three histogram weights of one loop iteration and     *)
(* the update of the accumulators (lines 1725-1729).                       *)
(***************************************************************************)
\* the flux weights laid out pixel after pixel within each offset (np.tile)
sci_weights_tiled(a, fr, sl) ==
    LET tiled(sel, one) ==
            Arr([e \in 1..(Len(sel) * num_subpixels(a)) |-> one[((e - 1) % Len(sel)) + 1]])
        of(sel, ws) ==
            tiled(sel, Arr([k \in 1..Len(sel) |->
                               RMul(RInt(a.all_sci[sel[k]]), ws[sel[k]])]))
    IN  of(this_sl(a, fr, sl), all_wght_subpix(a))

sci_weights(a, fr, sl) ==
    LET of(sel, ws) ==
            np_repeat(Arr([k \in 1..Len(sel) |->
                              RMul(RInt(a.all_sci[sel[k]]), ws[sel[k]])]),
                      num_subpixels(a))
    IN  of(this_sl(a, fr, sl), all_wght_subpix(a))

var_weights(a, fr, sl) ==
    LET of(sel, ws, av) ==
            np_repeat(Arr([k \in 1..Len(sel) |->
                              RMul(av[sel[k]], RMul(ws[sel[k]], ws[sel[k]]))]),
                      num_subpixels(a))
    IN  of(this_sl(a, fr, sl), all_wght_subpix(a), all_var(a))

norm_weights(a, fr, sl) ==
    LET of(sel, ws) == np_repeat(Arr([k \in 1..Len(sel) |-> ws[sel[k]]]), num_subpixels(a))
    IN  of(this_sl(a, fr, sl), all_wght_subpix(a))

\* the accumulators <<datacube, varcube, normcube>> after iteration (fr, sl)
accumulate_fast(a, cubes, fr, sl) ==
    LET add(vc, shape, rng) ==
            <<cube_add(cubes[1], histogramdd(vc, shape, rng, sci_weights(a, fr, sl))),
              cube_add(cubes[2], histogramdd(vc, shape, rng, var_weights(a, fr, sl))),
              cube_add(cubes[3], histogramdd(vc, shape, rng, norm_weights(a, fr, sl)))>>
    IN  add(vox_coord(a, fr, sl), outshape(a.bins), binrng(a.bins))

\* the same update when fast_histogram is not installed (lines 1732-1735)
accumulate_numpy(a, cubes, fr, sl) ==
    LET add(vc, shape) ==
            <<cube_add(cubes[1], np_histogramdd(vc, shape, sci_weights(a, fr, sl))),
              cube_add(cubes[2], np_histogramdd(vc, shape, var_weights(a, fr, sl))),
              cube_add(cubes[3], np_histogramdd(vc, shape, norm_weights(a, fr, sl)))>>
    IN  add(vox_coord(a, fr, sl), outshape(a.bins))

accumulate(a, cubes, fr, sl) ==
    IF fast_histogram THEN accumulate_fast(a, cubes, fr, sl)
    ELSE accumulate_numpy(a, cubes, fr, sl)

(***************************************************************************)
(* subpixellate: the normalisation (lines 1738-1746); the result is        *)
(* <<datacube, varcube, bpmcube>>.                                         *)
(***************************************************************************)
nc_inverse(normcube) == [v \in DOMAIN normcube |-> inverse(normcube[v])]

\* the normalisation with the variance divided by the weight only once
normalise_var_once(cubes) ==
    LET scaled(nci) ==
            <<[v \in DOMAIN cubes[1] |-> RMul(cubes[1][v], nci[v])],
              [v \in DOMAIN cubes[2] |-> RMul(cubes[2][v], nci[v])],
              [v \in DOMAIN cubes[3] |-> IF cubes[3][v] = RZero THEN 1 ELSE 0]>>
    IN  scaled(nc_inverse(cubes[3]))

\* the normalisation with the bad voxels taken from the zeros of the flux
normalise_bpm_from_flux(cubes) ==
    LET scaled(nci) ==
            <<[v \in DOMAIN cubes[1] |-> RMul(cubes[1][v], nci[v])],
              [v \in DOMAIN cubes[2] |-> RMul(cubes[2][v], RMul(nci[v], nci[v]))],
              [v \in DOMAIN cubes[1] |-> IF cubes[1][v] = RZero THEN 1 ELSE 0]>>
    IN  scaled(nc_inverse(cubes[3]))

normalise(cubes) ==
    LET scaled(nci) ==
            <<[v \in DOMAIN cubes[1] |-> RMul(cubes[1][v], nci[v])],
              [v \in DOMAIN cubes[2] |-> RMul(cubes[2][v], RMul(nci[v], nci[v]))],
              [v \in DOMAIN cubes[3] |-> IF cubes[3][v] = RZero THEN 1 ELSE 0]>>
    IN  scaled(nc_inverse(cubes[3]))

\* the largest r with r * r <= m, found by bisection of lo..hi
RECURSIVE ISqrtIn(_, _, _)
ISqrtIn(m, lo, hi) ==
    IF lo >= hi THEN lo
    ELSE LET halve(mid) ==
                 IF mid * mid <= m THEN ISqrtIn(m, mid, hi) ELSE ISqrtIn(m, lo, mid - 1)
         IN  halve((lo + hi + 1) \div 2)

\* np.sqrt of a float x >= 0, rounded down to a multiple of
\* 1/(SqrtRes * denominator of x)
np_sqrt(x) ==
    LET root(m) == Rat(ISqrtIn(m, 0, IF m < 46340 THEN m ELSE 46340), x[2] * SqrtRes)
    IN  root(x[1] * x[2] * SqrtRes * SqrtRes)

\* the DataCube that generate_cube_subpixel builds from the result of the pass
DataCube(flux, var, bpm) ==
    [flux |-> flux, sig |-> [v \in DOMAIN var |-> np_sqrt(var[v])], bpm |-> bpm]

(***************************************************************************)
(* The inputs of an accumulation pass.  A detector has the spectral rows   *)
(* Rows; slit number s (from 1, spat_id = s) covers the columns            *)
(* SlitCols[s].  An exposure is a function from its valid pixels           *)
(* <<specpos, spatpos>> (onslit_gpm) to the values extracted there.        *)
(***************************************************************************)
Rows == {0, 1}
SlitCols == <<{0, 1}, {2, 3}>>
RaVals == {<<0, 1>>, <<5, 4>>}
PhotVals == <<[sci |-> 1, ivar |-> 1, wght |-> <<1, 1>>],
              [sci |-> 2, ivar |-> 4, wght |-> <<2, 1>>],
              [sci |-> -1, ivar |-> 0, wght |-> <<1, 1>>]>>
SubpixelVals == 1..MaxSubpixel
GridShapes == {<<2, 2, 2>>}

TheTilts == [slope |-> <<1, 4>>, nspec |-> Cardinality(Rows)]
SlitsOf(n) == [spat_id |-> [s \in 1..n |-> s], nspec |-> Cardinality(Rows)]
AstromOf(n) ==
    [centre |-> [s \in 1..n |->
        LET lo == CHOOSE x \in SlitCols[s] : \A y \in SlitCols[s] : x <= y
            hi == CHOOSE x \in SlitCols[s] : \A y \in SlitCols[s] : x >= y
        IN  Rat(lo + hi, 2)]]

SlitOfCol(x) == CHOOSE s \in 1..Len(SlitCols) : x \in SlitCols[s]

\* the valid pixels of one slit: at least two, not all in one column
PixelSets(s) ==
    {P \in SUBSET (Rows \X SlitCols[s]) :
        /\ Cardinality(P) >= 2
        /\ Cardinality(P) <= MaxPix
        /\ \E p, q \in P : p[2] # q[2]}

\* the photometry of the pixels of P: the k-th pixel by row and column gets
\* the (k + shift)-th entry of PhotVals, cyclically
PhotOf(P, shift) ==
    [p \in P |->
        LET k == Cardinality({q \in P : q[1] * 16 + q[2] < p[1] * 16 + p[2]})
        IN  PhotVals[((k + shift) % Len(PhotVals)) + 1]]

\* the samples of one slit: a right ascension and a photometry per pixel
SlitBlocks(s) ==
    {[p \in P |-> <<r[p], PhotOf(P, shift)[p]>>] :
        <<P, r, shift>> \in UNION {{P} \X [P -> RaVals] \X {0, 1} : P \in PixelSets(s)}}

\* a short list of slit contents for the second slit or exposure of a pass
FewBlockSeq(s) ==
    LET lo == CHOOSE x \in SlitCols[s] : \A y \in SlitCols[s] : x <= y
        hi == lo + 1
        A == PhotVals[1]
        B == PhotVals[2]
    IN  <<(<<0, lo>> :> <<<<0, 1>>, A>>) @@ (<<1, hi>> :> <<<<1, 1>>, B>>),
          (<<0, hi>> :> <<<<1, 2>>, B>>) @@ (<<1, lo>> :> <<<<0, 1>>, B>>)>>

FewBlocks(s) == {FewBlockSeq(s)[k] : k \in 1..Len(FewBlockSeq(s))}

\* the pixels of an exposure in the order of np.where(onslit_gpm): by row,
\* then by column
PixelOrder(f) ==
    LET of(keys) == Arr([k \in 1..Len(keys) |-> <<keys[k] \div 16, keys[k] % 16>>])
    IN  of(Ascending({p[1] * 16 + p[2] : p \in DOMAIN f}))

\* the samples extracted from exposure f, loaded as exposure number ff
FrameSamples(f, ff) ==
    LET sample(p) ==
            [ra |-> f[p][1],
             dec |-> RInt(SlitOfCol(p[2]) - 1),
             wave |-> RMul(tilts_at(TheTilts, p[1], p[2]), RInt(TheTilts.nspec - 1)),
             sci |-> f[p][2].sci, ivar |-> f[p][2].ivar, wght |-> f[p][2].wght,
             idx |-> ff, specpos |-> p[1], spatpos |-> p[2],
             spatid |-> SlitOfCol(p[2])]
        of(pix) == Arr([k \in 1..Len(pix) |-> sample(pix[k])])
    IN  of(PixelOrder(f))

RECURSIVE PoolSamples(_, _)
PoolSamples(frames, ff) ==
    IF frames = <<>> THEN <<>>
    ELSE FrameSamples(Head(frames), ff) \o PoolSamples(Tail(frames), ff + 1)

\* np.arange(1 + n) - 0.5
bin_edges(n) == [k \in 1..(n + 1) |-> RSub(RInt(k - 1), RHalf)]

\* the arguments of subpixellate for the exposures frames, exposure k having
\* nslits[k] slits
MakeArgs(frames, nslits, shape, ssub, psub) ==
    LET of(S, n) ==
            [all_ra |-> [i \in 1..n |-> S[i].ra],
             all_dec |-> [i \in 1..n |-> S[i].dec],
             all_wave |-> [i \in 1..n |-> S[i].wave],
             all_sci |-> [i \in 1..n |-> S[i].sci],
             all_ivar |-> [i \in 1..n |-> S[i].ivar],
             all_wghts |-> [i \in 1..n |-> S[i].wght],
             all_spatpos |-> [i \in 1..n |-> S[i].spatpos],
             all_specpos |-> [i \in 1..n |-> S[i].specpos],
             all_spatid |-> [i \in 1..n |-> S[i].spatid],
             all_idx |-> [i \in 1..n |-> S[i].idx],
             tilts |-> [k \in 1..Len(frames) |-> TheTilts],
             slits |-> [k \in 1..Len(frames) |-> SlitsOf(nslits[k])],
             astrom_trans |-> [k \in 1..Len(frames) |-> AstromOf(nslits[k])],
             output_wcs |-> [crval |-> <<RZero, RZero, RZero>>,
                             cdelt |-> <<ROne, ROne, ROne>>],
             bins |-> [c \in 1..3 |-> bin_edges(shape[c])],
             spec_subpixel |-> ssub,
             spat_subpixel |-> psub]
        pooled(S) == of(S, Len(S))
    IN  pooled(PoolSamples(frames, 0))

\* one exposure with one slit; one exposure with two slits; two exposures
\* with one slit each
PassInputs ==
    {<<<<f>>, <<1>>>> : f \in SlitBlocks(1)}
    \cup {<<<<f @@ g>>, <<2>>>> : f \in FewBlocks(1), g \in FewBlocks(2)}
    \cup {<<<<f, g>>, <<1, 1>>>> : f \in FewBlocks(1), g \in FewBlocks(1)}

\* the iterations of the loops over exposures and slits, in order
RECURSIVE LoopFrom(_, _)
LoopFrom(a, f) ==
    IF f >= Len(a.tilts) THEN <<>>
    ELSE [s \in 1..Len(a.slits[f + 1].spat_id) |-> <<f, s - 1>>] \o LoopFrom(a, f + 1)

Loop(a) == LoopFrom(a, 0)

(***************************************************************************)
(* subpixellate as one call, and its callers generate_cube_subpixel and    *)
(* generate_image_subpixel.                                                *)
(***************************************************************************)
RECURSIVE accumulate_all(_, _, _)
accumulate_all(a, cubes, n) ==
    IF n = 0 THEN cubes
    ELSE accumulate(a, accumulate_all(a, cubes, n - 1), Loop(a)[n][1], Loop(a)[n][2])

\* <<datacube, varcube, bpmcube>>
subpixellate(a) ==
    LET from(z) == normalise(accumulate_all(a, <<z, z, z>>, Len(Loop(a))))
    IN  from(zeros(outshape(a.bins)))

\* the samples ww of the pooled arrays p (a record with the fields all_ra,
\* ..., all_spatid)
select(p, ww) ==
    [all_ra |-> Take(p.all_ra, ww), all_dec |-> Take(p.all_dec, ww),
     all_wave |-> Take(p.all_wave, ww), all_sci |-> Take(p.all_sci, ww),
     all_ivar |-> Take(p.all_ivar, ww), all_wghts |-> Take(p.all_wghts, ww),
     all_spatpos |-> Take(p.all_spatpos, ww), all_specpos |-> Take(p.all_specpos, ww),
     all_spatid |-> Take(p.all_spatid, ww), all_idx |-> Take(p.all_idx, ww)]

where_idx(all_idx, ff) == Ascending({i \in 1..Len(all_idx) : all_idx[i] = ff})

ones(n) == [i \in 1..n |-> ROne]

\* the arguments of a pass over the samples p, weighted by wghts, for the
\* exposures described by the lists tilts, slits and astrom_trans
list_call(p, wghts, tilts, slits, astrom_trans, wcs, bins, ssub, psub) ==
    [all_ra |-> p.all_ra, all_dec |-> p.all_dec, all_wave |-> p.all_wave,
     all_sci |-> p.all_sci, all_ivar |-> p.all_ivar, all_wghts |-> wghts,
     all_spatpos |-> p.all_spatpos, all_specpos |-> p.all_specpos,
     all_spatid |-> p.all_spatid, all_idx |-> p.all_idx,
     tilts |-> tilts, slits |-> slits, astrom_trans |-> astrom_trans,
     output_wcs |-> wcs, bins |-> bins, spec_subpixel |-> ssub, spat_subpixel |-> psub]

\* the same for tilts, slits and astrom_trans that are not lists: one
\* exposure, and all_idx is replaced by zeros (lines 1666-1670)
single_call(p, wghts, tilts, slits, astrom_trans, wcs, bins, ssub, psub) ==
    [list_call(p, wghts, <<tilts>>, <<slits>>, <<astrom_trans>>, wcs, bins, ssub, psub)
        EXCEPT !.all_idx = [i \in 1..Len(p.all_sci) |-> 0]]

\* generate_cube_subpixel: with a whitelight_range (anything but "None") the
\* white light helpers are looked up on the flux array and AttributeError is
\* raised, else the DataCube is built and handed to to_file(outfile)
generate_cube_subpixel(outfile, a, whitelight_range) ==
    LET wrap(subpix) ==
            IF whitelight_range # "None"
            THEN [raised |-> TRUE, outfile |-> outfile, final_cube |-> <<>>,
                  spec_subpixel |-> a.spec_subpixel, spat_subpixel |-> a.spat_subpixel]
            ELSE [raised |-> FALSE, outfile |-> outfile,
                  final_cube |-> DataCube(subpix[1], subpix[2], subpix[3]),
                  spec_subpixel |-> a.spec_subpixel, spat_subpixel |-> a.spat_subpixel]
    IN  wrap(subpixellate(a))

np_unique_size(xs) == Cardinality({xs[i] : i \in 1..Len(xs)})

\* the first wavelength plane of a cube, as an image
plane0(cube) == [xy \in {<<v[1], v[2]>> : v \in DOMAIN cube} |-> cube[<<xy[1], xy[2], 0>>]]

\* generate_image_subpixel with combine = False: fatal, or one white light
\* image per exposure index of p.all_idx
generate_image_subpixel(p, tilts, slits, astrom_trans, wcs, bins, ssub, psub) ==
    LET img(k, q) ==
            plane0(subpixellate(single_call(q, q.all_wghts, tilts[k], slits[k],
                                            astrom_trans[k], wcs, bins, ssub, psub))[1])
        of(numfr) ==
            IF Len(tilts) # numfr \/ Len(slits) # numfr \/ Len(astrom_trans) # numfr
            THEN [fatal |-> TRUE, all_wl_imgs |-> <<>>]
            ELSE [fatal |-> FALSE,
                  all_wl_imgs |->
                      Arr([k \in 1..numfr |->
                              img(k, select(p, where_idx(p.all_idx, k - 1)))])]
    IN  of(np_unique_size(p.all_idx))

(***************************************************************************)
(* CoAdd3D.create_wcs                                                      *)
(***************************************************************************)
np_mean(xs) == RDiv(RSum(xs), RInt(Len(xs)))

\* cos of an angle of at most a few degrees, given in degrees: 1 at 0 and
\* just below 1 elsewhere
cos_deg(x) == IF x = RZero THEN ROne ELSE Rat(999, 1000)

\* int(x): truncation towards zero
int_of(x) == IF x[1] >= 0 THEN x[1] \div x[2] ELSE -((-x[1]) \div x[2])

\* np.round(x): to the nearest integer, halves to the even one
np_round(x) ==
    LET near(f, r) ==
            IF RLt(r, RHalf) THEN f
            ELSE IF RLt(RHalf, r) THEN f + 1
            ELSE IF f % 2 = 0 THEN f ELSE f + 1
        above(f) == near(f, RSub(x, RInt(f)))
    IN  above(RFloor(x))

\* the pixel grid and the image of cubepar['reference_image']
ReferenceGrid == [crval |-> <<RZero, RZero>>, cdelt |-> <<RHalf, RHalf>>, shape |-> <<2, 2>>]

\* a cube range or wave_delta of cubepar that is None, and one that is set
NotGiven == [none |-> TRUE, val |-> RZero]
Given(x) == [none |-> FALSE, val |-> x]

\* cubepar with none of ra_min, ..., wave_max and wave_delta set
NoRanges ==
    [ra_min |-> NotGiven, ra_max |-> NotGiven, dec_min |-> NotGiven, dec_max |-> NotGiven,
     wave_min |-> NotGiven, wave_max |-> NotGiven, wave_delta |-> NotGiven]

\* create_wcs with floor((max - min) / step) voxels on every axis
create_wcs_floor(cubepar, all_ra, all_dec, all_wave, dspat, dwv, collapse) ==
    LET or_data(v, d) == IF v.none THEN d ELSE v.val
        grid(coord_min, coord_dlt, numra, numdec, numwav) ==
            [wcs |-> [crval |-> coord_min, cdelt |-> coord_dlt],
             voxedges |-> <<bin_edges(numra), bin_edges(numdec), bin_edges(numwav)>>,
             reference_image |-> cubepar.reference_image]
        celestial(numra, numdec, numwav, ra_min, dec_min, wav_min, dwave) ==
            grid(IF cubepar.reference_image
                 THEN <<ReferenceGrid.crval[1], ReferenceGrid.crval[2], wav_min>>
                 ELSE <<ra_min, dec_min, wav_min>>,
                 IF cubepar.reference_image
                 THEN <<ReferenceGrid.cdelt[1], ReferenceGrid.cdelt[2], dwave>>
                 ELSE <<dspat, dspat, dwave>>,
                 IF cubepar.reference_image THEN ReferenceGrid.shape[1] ELSE numra,
                 IF cubepar.reference_image THEN ReferenceGrid.shape[2] ELSE numdec,
                 numwav)
        of(cosdec, ra_min, ra_max, dec_min, dec_max, wav_min, wav_max, dwave) ==
            celestial(RFloor(RDiv(RSub(ra_max, ra_min), dspat)),
                      RFloor(RDiv(RSub(dec_max, dec_min), dspat)),
                      IF collapse THEN 1
                      ELSE RFloor(RDiv(RSub(wav_max, wav_min), dwave)),
                      ra_min, dec_min,
                      IF collapse THEN RMinOf(all_wave) ELSE wav_min,
                      IF collapse THEN RSub(RMaxOf(all_wave), RMinOf(all_wave))
                      ELSE dwave)
    IN  of(cos_deg(np_mean(all_dec)),
           or_data(cubepar.ra_min, RMinOf(all_ra)), or_data(cubepar.ra_max, RMaxOf(all_ra)),
           or_data(cubepar.dec_min, RMinOf(all_dec)),
           or_data(cubepar.dec_max, RMaxOf(all_dec)),
           or_data(cubepar.wave_min, RMinOf(all_wave)),
           or_data(cubepar.wave_max, RMaxOf(all_wave)),
           or_data(cubepar.wave_delta, dwv))

\* create_wcs that makes the wavelength axis of a collapsed grid as it makes
\* that of any other
create_wcs_uncollapsed(cubepar, all_ra, all_dec, all_wave, dspat, dwv, collapse) ==
    LET or_data(v, d) == IF v.none THEN d ELSE v.val
        grid(coord_min, coord_dlt, numra, numdec, numwav) ==
            [wcs |-> [crval |-> coord_min, cdelt |-> coord_dlt],
             voxedges |-> <<bin_edges(numra), bin_edges(numdec), bin_edges(numwav)>>,
             reference_image |-> cubepar.reference_image]
        celestial(numra, numdec, numwav, ra_min, dec_min, wav_min, dwave) ==
            grid(IF cubepar.reference_image
                 THEN <<ReferenceGrid.crval[1], ReferenceGrid.crval[2], wav_min>>
                 ELSE <<ra_min, dec_min, wav_min>>,
                 IF cubepar.reference_image
                 THEN <<ReferenceGrid.cdelt[1], ReferenceGrid.cdelt[2], dwave>>
                 ELSE <<dspat, dspat, dwave>>,
                 IF cubepar.reference_image THEN ReferenceGrid.shape[1] ELSE numra,
                 IF cubepar.reference_image THEN ReferenceGrid.shape[2] ELSE numdec,
                 numwav)
        of(cosdec, ra_min, ra_max, dec_min, dec_max, wav_min, wav_max, dwave) ==
            celestial(int_of(RDiv(RMul(RSub(ra_max, ra_min), cosdec), dspat)),
                      int_of(RDiv(RSub(dec_max, dec_min), dspat)),
                      IF FALSE /\ collapse THEN 1
                      ELSE np_round(RDiv(RSub(wav_max, wav_min), dwave)),
                      ra_min, dec_min,
                      IF FALSE /\ collapse THEN RMinOf(all_wave) ELSE wav_min,
                      IF FALSE /\ collapse THEN RSub(RMaxOf(all_wave), RMinOf(all_wave))
                      ELSE dwave)
    IN  of(cos_deg(np_mean(all_dec)),
           or_data(cubepar.ra_min, RMinOf(all_ra)), or_data(cubepar.ra_max, RMaxOf(all_ra)),
           or_data(cubepar.dec_min, RMinOf(all_dec)),
           or_data(cubepar.dec_max, RMaxOf(all_dec)),
           or_data(cubepar.wave_min, RMinOf(all_wave)),
           or_data(cubepar.wave_max, RMaxOf(all_wave)),
           or_data(cubepar.wave_delta, dwv))

\* [wcs, voxedges, reference_image] for the coordinates given and the
\* ranges, wave_delta and reference_image of cubepar
create_wcs_cubepar(cubepar, all_ra, all_dec, all_wave, dspat, dwv, collapse) ==
    LET or_data(v, d) == IF v.none THEN d ELSE v.val
        grid(coord_min, coord_dlt, numra, numdec, numwav) ==
            [wcs |-> [crval |-> coord_min, cdelt |-> coord_dlt],
             voxedges |-> <<bin_edges(numra), bin_edges(numdec), bin_edges(numwav)>>,
             reference_image |-> cubepar.reference_image]
        celestial(numra, numdec, numwav, ra_min, dec_min, wav_min, dwave) ==
            grid(IF cubepar.reference_image
                 THEN <<ReferenceGrid.crval[1], ReferenceGrid.crval[2], wav_min>>
                 ELSE <<ra_min, dec_min, wav_min>>,
                 IF cubepar.reference_image
                 THEN <<ReferenceGrid.cdelt[1], ReferenceGrid.cdelt[2], dwave>>
                 ELSE <<dspat, dspat, dwave>>,
                 IF cubepar.reference_image THEN ReferenceGrid.shape[1] ELSE numra,
                 IF cubepar.reference_image THEN ReferenceGrid.shape[2] ELSE numdec,
                 numwav)
        of(cosdec, ra_min, ra_max, dec_min, dec_max, wav_min, wav_max, dwave) ==
            celestial(int_of(RDiv(RMul(RSub(ra_max, ra_min), cosdec), dspat)),
                      int_of(RDiv(RSub(dec_max, dec_min), dspat)),
                      IF collapse THEN 1
                      ELSE np_round(RDiv(RSub(wav_max, wav_min), dwave)),
                      ra_min, dec_min,
                      IF collapse THEN RMinOf(all_wave) ELSE wav_min,
                      IF collapse THEN RSub(RMaxOf(all_wave), RMinOf(all_wave))
                      ELSE dwave)
    IN  of(cos_deg(np_mean(all_dec)),
           or_data(cubepar.ra_min, RMinOf(all_ra)), or_data(cubepar.ra_max, RMaxOf(all_ra)),
           or_data(cubepar.dec_min, RMinOf(all_dec)),
           or_data(cubepar.dec_max, RMaxOf(all_dec)),
           or_data(cubepar.wave_min, RMinOf(all_wave)),
           or_data(cubepar.wave_max, RMaxOf(all_wave)),
           or_data(cubepar.wave_delta, dwv))

\* create_wcs of a run whose cubepar sets no cube range and no wave_delta
create_wcs(reference_image, all_ra, all_dec, all_wave, dspat, dwv, collapse) ==
    create_wcs_cubepar(NoRanges @@ [reference_image |-> reference_image],
                       all_ra, all_dec, all_wave, dspat, dwv, collapse)

(***************************************************************************)
(* Output file names.  A name is [stem, num, whitelight]: stem.fits,       *)
(* stem_NNN.fits for num = <<NNN>>, and the white light image of either.   *)
(***************************************************************************)
Spec2dFiles == <<"spec2d_A", "spec2d_B", "spec2d_C", "spec2d_D">>
Spec3dFiles == <<"spec3d_A", "spec3d_B", "spec3d_C", "spec3d_D">>

\* fil.replace('spec2d_', 'spec3d_')
replace_spec2d(fil) ==
    IF \E k \in 1..Len(Spec2dFiles) : Spec2dFiles[k] = fil
    THEN Spec3dFiles[CHOOSE k \in 1..Len(Spec2dFiles) : Spec2dFiles[k] = fil]
    ELSE fil

\* datacube.get_output_filename(fil, par_outfile, combine, idx)
get_output_filename(fil, par_outfile, combine, idx) ==
    IF combine
    THEN [stem |-> IF par_outfile = "" THEN "datacube" ELSE par_outfile,
          num |-> <<>>, whitelight |-> FALSE]
    ELSE IF par_outfile = ""
    THEN [stem |-> replace_spec2d(fil), num |-> <<>>, whitelight |-> FALSE]
    ELSE [stem |-> par_outfile, num |-> <<idx>>, whitelight |-> FALSE]

\* datacube.get_output_whitelight_filename(outfile)
get_output_whitelight_filename(outfile) == [outfile EXCEPT !.whitelight = TRUE]

\* check_outputs: the cube names it forms, in order
check_outputs_cubes(c) ==
    IF c.combine
    THEN <<get_output_filename("", c.output_filename, c.combine, 1)>>
    ELSE IF c.numfiles = 1 /\ c.output_filename # ""
    THEN <<get_output_filename("", c.output_filename, TRUE, -1)>>
    ELSE [k \in 1..c.numfiles |->
             get_output_filename(c.spec2d[k], c.output_filename, c.combine, k)]

\* check_outputs: the names whose existence can stop the run
check_outputs_names(c) ==
    {check_outputs_cubes(c)[k] : k \in 1..Len(check_outputs_cubes(c))}
    \cup (IF c.save_whitelight
          THEN {get_output_whitelight_filename(check_outputs_cubes(c)[k]) :
                    k \in 1..Len(check_outputs_cubes(c))}
          ELSE {})

\* check_outputs raises a fatal error
check_outputs_fatal(c) ==
    ~c.overwrite /\ \E f \in check_outputs_names(c) : f \in c.disk

(***************************************************************************)
(* The inputs of a run of CoAdd3D.                                         *)
(***************************************************************************)
\* the files found on disk: none, or first outputs of an earlier run
DiskVals ==
    {{},
     {[stem |-> "datacube", num |-> <<>>, whitelight |-> FALSE],
      [stem |-> "cube", num |-> <<>>, whitelight |-> FALSE],
      [stem |-> "cube", num |-> <<1>>, whitelight |-> FALSE],
      [stem |-> "spec3d_A", num |-> <<>>, whitelight |-> FALSE]}}

Configs ==
    {c \in [numfiles : 1..MaxFiles, combine : BOOLEAN, align : BOOLEAN,
            ra_offset : {"None", "given"}, reference_image : BOOLEAN,
            output_filename : {"", "cube"}, save_whitelight : BOOLEAN,
            overwrite : BOOLEAN, disk : DiskVals] :
        c.overwrite => c.disk # {}}

\* cubepar sets no cube range, a standard cube is configured, the sky model
\* of each exposure is subtracted, no scale correction is asked for, and the
\* wavelength images of all slits of all exposures reach beyond every valid
\* sample
UsualSources(n) ==
    [ranges |-> NoRanges, standard_cube |-> "std.fits", skysub_frame |-> "image", scale_corr |-> "None",
     opts_skysub |-> [k \in 1..n |-> "default"],
     opts_scalecorr |-> [k \in 1..n |-> "None"], waveimg |-> "wide"]

\* cubepar['method'] as the user may write it; "resample" names no method
MethodVals == {"subpixel", "NGP", "resample"}

\* str.lower() on those names
lower(s) == IF s = "NGP" THEN "ngp" ELSE s

\* self.method after the constructor's fast-histogram check: without the
\* library every method but 'ngp' is replaced by 'ngp'
method_of(c) ==
    IF ~fast_histogram /\ lower(c.method) # "ngp" THEN "ngp" ELSE lower(c.method)

\* the constructor's msgs.error for a method that is neither of the two
method_fatal(c) == method_of(c) \notin {"subpixel", "ngp"}

\* runs that differ in the method, the library and the configured factors
MethodInputs ==
    {c @@ [reference_image |-> FALSE, output_filename |-> "cube",
           save_whitelight |-> FALSE, overwrite |-> FALSE, disk |-> {}] :
        c \in [numfiles : 1..MaxFiles, combine : BOOLEAN, align : BOOLEAN,
               ra_offset : {"None", "given"}, method : MethodVals,
               spec_subpixel : 1..MaxSubpixel,
               spat_subpixel : 1..MaxSubpixel]}

\* the spec2d file names of a run
spec2d_of(c) == SubSeq(Spec2dFiles, 1, c.numfiles)

\* the exposure in file number ff (from 0): two slits of two valid pixels
Exposure(ff) ==
    FewBlockSeq(1)[(ff % 2) + 1] @@ FewBlockSeq(2)[((ff + 1) % 2) + 1]

\* header coordinates of exposure ff and the user's offsets for it (arcsec)
ifu_ra_of(ff) == Rat(ff, 2)
ifu_dec_of(ff) == Rat(-ff, 2)
ra_offset_of(ff) == RInt(1800 * (ff + 1))
dec_offset_of(ff) == RInt(900 * (ff + 1))

\* pixel and slicer scale of every exposure (degrees)
spatscale_of(ff) == <<RHalf, RHalf>>

\* the grid of the instrument for one exposure (get_datacube_bins, get_wcs)
InstrumentGrid ==
    [wcs |-> [crval |-> <<RZero, RZero, RZero>>, cdelt |-> <<ROne, ROne, ROne>>],
     bins |-> <<bin_edges(2), bin_edges(2), bin_edges(2)>>]

\* what the weight solver and the phase correlation may return
WeightVals == {ROne, RInt(2)}
ShiftVals == {<<RZero, RZero>>, <<ROne, RInt(-1)>>}

\* the samples of one exposure as arrays, all numbered as exposure 0
frame_arrays_unnumbered(ff) ==
    LET of(S, n) ==
            [all_ra |-> [i \in 1..n |-> S[i].ra], all_dec |-> [i \in 1..n |-> S[i].dec],
             all_wave |-> [i \in 1..n |-> S[i].wave],
             all_sci |-> [i \in 1..n |-> S[i].sci],
             all_ivar |-> [i \in 1..n |-> S[i].ivar], all_wghts |-> ones(n),
             all_spatpos |-> [i \in 1..n |-> S[i].spatpos],
             all_specpos |-> [i \in 1..n |-> S[i].specpos],
             all_spatid |-> [i \in 1..n |-> S[i].spatid],
             all_idx |-> [i \in 1..n |-> 0]]
        arrays(S) == of(S, Len(S))
    IN  arrays(FrameSamples(Exposure(ff), ff))

\* the samples of one exposure as arrays
frame_arrays(ff) ==
    LET of(S, n) ==
            [all_ra |-> [i \in 1..n |-> S[i].ra], all_dec |-> [i \in 1..n |-> S[i].dec],
             all_wave |-> [i \in 1..n |-> S[i].wave],
             all_sci |-> [i \in 1..n |-> S[i].sci],
             all_ivar |-> [i \in 1..n |-> S[i].ivar], all_wghts |-> ones(n),
             all_spatpos |-> [i \in 1..n |-> S[i].spatpos],
             all_specpos |-> [i \in 1..n |-> S[i].specpos],
             all_spatid |-> [i \in 1..n |-> S[i].spatid],
             all_idx |-> [i \in 1..n |-> ff]]
        arrays(S) == of(S, Len(S))
    IN  arrays(FrameSamples(Exposure(ff), ff))

(***************************************************************************)
(* State of an accumulation pass.                                          *)
(***************************************************************************)
VARIABLES
    args,       \* the arguments of the running subpixellate call
    apc,        \* "loop": accumulating; "returned": normalised and returned to
                \* generate_cube_subpixel; "written": the DataCube is written;
                \* "failed": generate_cube_subpixel raised
    iter,       \* the number of loop iterations completed
    datacube,   \* the flux accumulator, normalised in place at the end
    varcube,    \* the variance accumulator, normalised in place at the end
    normcube,   \* the weight accumulator
    bpmcube,    \* the bad-voxel cube of the result (0/1), <<>> before
    flux_sum,   \* datacube as it was before the normalisation (line 1738)
    var_sum,    \* varcube as it was before the normalisation (line 1738)
    final_cube  \* the DataCube written by generate_cube_subpixel, <<>> before

accvars == <<args, apc, iter, datacube, varcube, normcube, bpmcube, flux_sum, var_sum,
             final_cube>>

(***************************************************************************)
(* State of a run of SlicerIFUCoAdd3D: the constructor, then coadd().      *)
(***************************************************************************)
VARIABLES
    cfg,        \* the arguments of the constructor and the files on disk
    pc,         \* where the run is: "new", "load", "loaded", "align", "weights",
                \* "grid", "final", "done"; "fatal" after msgs.error,
                \* "crashed" after an exception of load() or of the making
                \* of a cube, "raised" after one of set_spatial_scale
    self,       \* the attributes of the object, <<>> before the constructor
    ff,         \* the index of the running loop over the exposures
    dd,         \* the number of registration rounds completed
    cosdec,     \* run_align's cos(dec), <<>> outside run_align
    cube_grid,  \* coadd's cube_wcs and vox_edges, <<>> before they are made
    checked,    \* the file names check_outputs has tested
    written,    \* the cubes handed to to_file, in order
    stages,     \* the stages of coadd() entered so far, in order
    msgs,       \* the warnings and errors that the constructor and load() log
                \* about the align flag, the method, the outputs and the sky
                \* and scale sources
    loaded,     \* per exposure that load() has prepared: the sky and scale
                \* modes and images chosen for it and the reference
                \* wavelength of its DAR correction
    wl_full,    \* what compute_weights made its white light image from, and
                \* the image; <<>> as long as it has made none
    rounds      \* per registration round: the coordinates it read, its white
                \* light images and the shifts it applied

runvars == <<cfg, pc, self, ff, dd, cosdec, cube_grid, checked, written, stages, msgs,
             loaded, wl_full, rounds>>

vars == <<accvars, runvars, fast_histogram>>

\* no run of CoAdd3D is in progress
NoRun ==
    /\ cfg = <<>>
    /\ pc = "idle"
    /\ self = <<>>
    /\ ff = 0
    /\ dd = 0
    /\ cosdec = <<>>
    /\ cube_grid = <<>>
    /\ checked = {}
    /\ written = <<>>
    /\ stages = <<>>
    /\ msgs = <<>>
    /\ loaded = <<>>
    /\ wl_full = <<>>
    /\ rounds = <<>>

\* no single accumulation pass is being followed
NoPass ==
    /\ args = <<>>
    /\ apc = "idle"
    /\ iter = 0
    /\ datacube = <<>>
    /\ varcube = <<>>
    /\ normcube = <<>>
    /\ bpmcube = <<>>
    /\ flux_sum = <<>>
    /\ var_sum = <<>>
    /\ final_cube = <<>>

AccInit ==
    /\ \E inp \in PassInputs, shape \in GridShapes, ssub \in SubpixelVals,
          psub \in SubpixelVals :
          args = MakeArgs(inp[1], inp[2], shape, ssub, psub)
    /\ apc = "loop"
    /\ iter = 0
    /\ datacube = zeros(outshape(args.bins))
    /\ varcube = zeros(outshape(args.bins))
    /\ normcube = zeros(outshape(args.bins))
    /\ bpmcube = <<>>
    /\ flux_sum = zeros(outshape(args.bins))
    /\ var_sum = zeros(outshape(args.bins))
    /\ final_cube = <<>>
    /\ NoRun
    /\ fast_histogram \in BOOLEAN

\* an iteration of the loop that is not the last one
SlitStep ==
    /\ apc = "loop"
    /\ iter + 1 < Len(Loop(args))
    /\ \E it \in {Loop(args)[iter + 1]} :
       /\ this_sl(args, it[1], it[2]) # <<>>
       /\ \E acc \in {accumulate(args, <<datacube, varcube, normcube>>, it[1], it[2])} :
           /\ datacube' = acc[1]
           /\ varcube' = acc[2]
           /\ normcube' = acc[3]
           /\ flux_sum' = acc[1]
           /\ var_sum' = acc[2]
    /\ iter' = iter + 1
    /\ UNCHANGED <<args, apc, bpmcube, final_cube>>
    /\ UNCHANGED <<runvars, fast_histogram>>

\* the last iteration of the loop, the normalisation and the return
SlitStepLast ==
    /\ apc = "loop"
    /\ iter + 1 = Len(Loop(args))
    /\ \E it \in {Loop(args)[iter + 1]} :
       /\ this_sl(args, it[1], it[2]) # <<>>
       /\ \E acc \in {accumulate(args, <<datacube, varcube, normcube>>, it[1], it[2])} :
          \E res \in {normalise(acc)} :
           /\ datacube' = res[1]
           /\ varcube' = res[2]
           /\ bpmcube' = res[3]
           /\ normcube' = acc[3]
           /\ flux_sum' = acc[1]
           /\ var_sum' = acc[2]
    /\ iter' = iter + 1
    /\ apc' = "returned"
    /\ UNCHANGED <<args, final_cube>>
    /\ UNCHANGED <<runvars, fast_histogram>>

\* generate_cube_subpixel called with whitelight_range = None: the DataCube
\* is built from the result of the pass and written
WriteCube ==
    /\ apc = "returned"
    /\ final_cube' = DataCube(datacube, varcube, bpmcube)
    /\ apc' = "written"
    /\ UNCHANGED <<args, iter, datacube, varcube, normcube, bpmcube, flux_sum, var_sum>>
    /\ UNCHANGED <<runvars, fast_histogram>>

\* generate_cube_subpixel called with a whitelight_range: the name datacube
\* is by now the flux array of the pass, and the white light helpers looked
\* up on it raise AttributeError before anything is written
WhitelightFails ==
    /\ apc = "returned"
    /\ apc' = "failed"
    /\ UNCHANGED <<args, iter, datacube, varcube, normcube, bpmcube, flux_sum, var_sum,
                   final_cube>>
    /\ UNCHANGED <<runvars, fast_histogram>>

AccNext == SlitStep \/ SlitStepLast \/ WriteCube \/ WhitelightFails

AccSpec == AccInit /\ [][AccNext]_vars

(***************************************************************************)
(* A call of subpixellate or of generate_image_subpixel with arguments     *)
(* that may not fit together: the checks at the top of both functions.     *)
(***************************************************************************)
\* how one of tilts, slits and astrom_trans is handed over: 0 for a single
\* object that is not a list, n > 0 for a list of n entries.  The entry is
\* "subpixellate" or "image" (generate_image_subpixel, with its combine
\* flag; without combine it indexes its three arguments, so they are lists)
CallForms ==
    {c \in [entry : {"subpixellate", "image"}, combine : BOOLEAN,
            nexp : 1..MaxFiles, tilts : 0..MaxFiles, slits : 0..MaxFiles,
            astrom_trans : 0..MaxFiles, idx_given : BOOLEAN] :
        /\ c.entry = "subpixellate" => ~c.combine
        /\ (c.entry = "image" /\ ~c.combine) =>
               (c.tilts > 0 /\ c.slits > 0 /\ c.astrom_trans > 0)}

\* the samples of nexp exposures of one slit each, pooled, on a 2 x 2 x 2 grid
call_samples(nexp) ==
    MakeArgs([k \in 1..nexp |-> FewBlockSeq(1)[((k - 1) % 2) + 1]],
             [k \in 1..nexp |-> 1], <<2, 2, 2>>, 1, 1)

\* np.zeros(all_sci.size)
np_zeros(n) == [i \in 1..n |-> 0]

\* the all_idx that reaches subpixellate, None being [none |-> TRUE];
\* generate_image_subpixel replaces None by zeros before it calls
all_idx_of(c, a) ==
    IF c.idx_given THEN [none |-> FALSE, val |-> a.all_idx]
    ELSE IF c.entry = "image" THEN [none |-> FALSE, val |-> np_zeros(Len(a.all_sci))]
    ELSE [none |-> TRUE, val |-> <<>>]

\* the checks of subpixellate on its lists (lines 1646-1673): "fatal", or
\* what it goes on with
list_checks(c, all_idx) ==
    IF c.tilts > 0 /\ c.slits > 0 /\ c.astrom_trans > 0
    THEN IF c.slits # c.tilts \/ c.astrom_trans # c.tilts THEN "fatal"
         ELSE IF all_idx.none
         THEN (IF c.tilts # 1 THEN "fatal" ELSE "zeros")
         ELSE IF np_unique_size(all_idx.val) # c.tilts THEN "warn" ELSE "lists"
    ELSE IF c.tilts = 0 /\ c.slits = 0 /\ c.astrom_trans = 0 THEN "single"
    ELSE "fatal"

\* _tilts, _slits, _astrom_trans, numframes and all_idx after the checks
checked_args(c, a, all_idx, outcome) ==
    LET n == IF outcome = "single" THEN 1 ELSE c.tilts
    IN  [a EXCEPT !.tilts = [k \in 1..n |-> TheTilts],
                  !.slits = [k \in 1..n |-> SlitsOf(1)],
                  !.astrom_trans = [k \in 1..n |-> AstromOf(1)],
                  !.all_idx = IF outcome \in {"single", "zeros"}
                              THEN np_zeros(Len(a.all_sci)) ELSE all_idx.val]

CheckInit ==
    /\ \E c \in CallForms : args = call_samples(c.nexp) @@ [call |-> c]
    /\ apc = "called"
    /\ iter = 0
    /\ datacube = <<>>
    /\ varcube = <<>>
    /\ normcube = <<>>
    /\ bpmcube = <<>>
    /\ flux_sum = <<>>
    /\ var_sum = <<>>
    /\ final_cube = <<>>
    /\ NoRun
    /\ fast_histogram = TRUE

\* subpixellate is entered, directly or from generate_image_subpixel with
\* combine: its checks, then the empty accumulators
EnterSubpixellate ==
    /\ apc = "called"
    /\ args.call.entry = "subpixellate" \/ args.call.combine
    /\ \E idx \in {all_idx_of(args.call, args)} :
       \E outcome \in {list_checks(args.call, idx)} :
           IF outcome = "fatal"
           THEN /\ apc' = "fatal"
                /\ UNCHANGED <<args, datacube, varcube, normcube, flux_sum, var_sum>>
           ELSE /\ apc' = "loop"
                /\ args' = checked_args(args.call, args, idx, outcome)
                /\ datacube' = zeros(outshape(args.bins))
                /\ varcube' = zeros(outshape(args.bins))
                /\ normcube' = zeros(outshape(args.bins))
                /\ flux_sum' = zeros(outshape(args.bins))
                /\ var_sum' = zeros(outshape(args.bins))
    /\ UNCHANGED <<iter, bpmcube, final_cube>>
    /\ UNCHANGED <<runvars, fast_histogram>>

\* an iteration of the loop for a slit of an exposure that has no sample:
\* interp1d (line 1706) is given empty arrays and raises before the
\* histograms of the iteration
SlitRaises ==
    /\ apc = "loop"
    /\ iter < Len(Loop(args))
    /\ \E it \in {Loop(args)[iter + 1]} : this_sl(args, it[1], it[2]) = <<>>
    /\ apc' = "raised"
    /\ UNCHANGED <<args, iter, datacube, varcube, normcube, bpmcube, flux_sum, var_sum,
                   final_cube>>
    /\ UNCHANGED <<runvars, fast_histogram>>

\* generate_image_subpixel with combine, after subpixellate has returned:
\* the one image is the first wavelength plane
ImageCombined ==
    /\ apc = "returned"
    /\ args.call.entry = "image"
    /\ final_cube' = <<plane0(datacube)>>
    /\ apc' = "images"
    /\ UNCHANGED <<args, iter, datacube, varcube, normcube, bpmcube, flux_sum, var_sum>>
    /\ UNCHANGED <<runvars, fast_histogram>>

\* generate_image_subpixel without combine: its own check on the lengths
\* (lines 1378-1385), then one pass per exposure index
ImagesPerFrame ==
    /\ apc = "called"
    /\ args.call.entry = "image" /\ ~args.call.combine
    /\ \E idx \in {all_idx_of(args.call, args)} :
       \E wl \in {generate_image_subpixel([args EXCEPT !.all_idx = idx.val],
                      [k \in 1..args.call.tilts |-> TheTilts],
                      [k \in 1..args.call.slits |-> SlitsOf(1)],
                      [k \in 1..args.call.astrom_trans |-> AstromOf(1)],
                      args.output_wcs, args.bins, 1, 1)} :
           /\ apc' = IF wl.fatal THEN "fatal" ELSE "images"
           /\ final_cube' = wl.all_wl_imgs
           /\ iter' = IF wl.fatal THEN 0 ELSE Len(wl.all_wl_imgs)
    /\ UNCHANGED <<args, datacube, varcube, normcube, bpmcube, flux_sum, var_sum>>
    /\ UNCHANGED <<runvars, fast_histogram>>

CheckNext ==
    \/ EnterSubpixellate
    \/ ImagesPerFrame
    \/ SlitStep
    \/ SlitStepLast
    \/ SlitRaises
    \/ ImageCombined

CheckSpec == CheckInit /\ [][CheckNext]_vars

(***************************************************************************)
(* A run of SlicerIFUCoAdd3D.                                              *)
(***************************************************************************)
\* the number of registration rounds of run_align
numiter == 2

Init ==
    /\ cfg \in {c @@ [spec2d |-> spec2d_of(c), method |-> "subpixel",
                       spec_subpixel |-> MaxSubpixel,
                       spat_subpixel |-> MaxSubpixel] @@ UsualSources(c.numfiles) :
                  c \in Configs}
    /\ pc = "new"
    /\ self = <<>>
    /\ ff = 0
    /\ dd = 0
    /\ cosdec = <<>>
    /\ cube_grid = <<>>
    /\ checked = {}
    /\ written = <<>>
    /\ stages = <<>>
    /\ msgs = <<>>
    /\ loaded = <<>>
    /\ wl_full = <<>>
    /\ rounds = <<>>
    /\ NoPass
    /\ fast_histogram = TRUE

\* the align flag after the constructor's two overrides
effective_align(c) ==
    LET a1 == IF c.numfiles = 1 /\ ~c.reference_image THEN FALSE ELSE c.align
    IN  IF c.ra_offset # "None" THEN TRUE ELSE a1

\* the warnings of the two overrides: each is given when the flag it finds
\* is not set ("if not self.align")
align_warnings(c) ==
    LET a1 == IF c.numfiles = 1 /\ ~c.reference_image THEN FALSE ELSE c.align
    IN  (IF c.numfiles = 1 /\ ~c.reference_image /\ ~c.align
         THEN <<<<"warn", "align to False">>>> ELSE <<>>)
        \o (IF c.ra_offset # "None" /\ ~a1
            THEN <<<<"warn", "align to True">>>> ELSE <<>>)

\* CoAdd3D.__init__, with check_outputs.  self.spec_subpixel and
\* self.spat_subpixel are set to 1 before the method is looked at; the branch
\* for 'subpixel' assigns the configured factors to two local names
(***************************************************************************)
(* The sources of the sky subtraction and of the relative scale            *)
(* correction.  A mode is "none", "image" or the name of a spec2d file; an *)
(* image is written as the sequence of its source and the factors applied  *)
(* to it; "None" stands for Python's None and "unset" for an attribute     *)
(* that was never assigned.                                                *)
(***************************************************************************)
\* whether Spec2DObj.from_file (and fits.open) can read the file
loadable(file) == file = "ok.fits"

set_default_scalecorr(c) ==
    IF c.scale_corr = "None"
    THEN [scalecorr_default |-> "none", relScaleImgDef |-> <<"1">>, warned |-> FALSE]
    ELSE IF c.scale_corr = "image"
    THEN [scalecorr_default |-> "image", relScaleImgDef |-> <<"1">>, warned |-> FALSE]
    ELSE IF loadable(c.scale_corr)
    THEN [scalecorr_default |-> c.scale_corr,
          relScaleImgDef |-> <<c.scale_corr, "scaleimg">>, warned |-> FALSE]
    ELSE [scalecorr_default |-> "none", relScaleImgDef |-> <<"1">>, warned |-> TRUE]

set_default_skysub(c) ==
    IF c.skysub_frame \in {"None", "none", ""}
    THEN [skysub_default |-> "none", skyImgDef |-> <<"0">>, skySclDef |-> <<"0">>,
          fatal |-> FALSE]
    ELSE IF c.skysub_frame = "image"
    THEN [skysub_default |-> "image", skyImgDef |-> <<"None">>, skySclDef |-> <<"None">>,
          fatal |-> FALSE]
    ELSE IF loadable(c.skysub_frame)
    THEN [skysub_default |-> c.skysub_frame,
          skyImgDef |-> <<c.skysub_frame, "sciimg", "/skysub_exptime">>,
          skySclDef |-> <<c.skysub_frame, "scaleimg">>, fatal |-> FALSE]
    ELSE [skysub_default |-> "image", skyImgDef |-> <<"None">>, skySclDef |-> <<"None">>,
          fatal |-> TRUE]

\* the attributes that hold the default modes: make_sensfunc assigns them,
\* and it runs only when a standard cube is configured
make_sensfunc(c) ==
    IF c.standard_cube = "None"
    THEN [scalecorr_default |-> "unset", relScaleImgDef |-> <<"unset">>, warned |-> FALSE,
          skysub_default |-> "unset", skyImgDef |-> <<"unset">>, skySclDef |-> <<"unset">>,
          fatal |-> FALSE]
    ELSE set_default_scalecorr(c) @@ set_default_skysub(c)

\* get_current_skysub for an exposure whose entry of opts['skysub_frame'] is
\* opt; raised is "" when it returns
get_current_skysub(s, opt) ==
    LET own == [raised |-> "", this_skysub |-> "image",
                skyImg |-> <<"own", "skymodel">>, skyScl |-> <<"own", "scaleimg">>]
    IN  IF s.skysub_default = "unset"
        THEN [raised |-> "AttributeError", this_skysub |-> "", skyImg |-> <<>>,
              skyScl |-> <<>>]
        ELSE IF opt = "None"
        THEN IF s.skysub_default = "image" THEN own
             ELSE [raised |-> "", this_skysub |-> s.skysub_default,
                   skyImg |-> Append(s.skyImgDef, "*exptime"), skyScl |-> s.skySclDef]
        ELSE IF opt = "default"
        THEN IF s.skysub_default = "image" THEN own
             ELSE [raised |-> "", this_skysub |-> s.skysub_default,
                   skyImg |-> Append(s.skyImgDef, "*exptime"),
                   skyScl |-> Append(s.skySclDef, "*exptime")]
        ELSE IF opt = "image" THEN own
        ELSE IF opt = "none"
        THEN [raised |-> "", this_skysub |-> "none", skyImg |-> <<"0">>, skyScl |-> <<"1">>]
        ELSE IF loadable(opt)
        THEN [raised |-> "", this_skysub |-> opt,
              skyImg |-> <<opt, "sciimg", "*exptime", "/skysub_exptime">>,
              skyScl |-> <<opt, "scaleimg">>]
        ELSE [raised |-> "msgs.error", this_skysub |-> "", skyImg |-> <<>>, skyScl |-> <<>>]

\* get_current_scalecorr for an exposure whose entry of opts['scale_corr']
\* is opt
get_current_scalecorr(s, opt) ==
    LET own == [raised |-> "", this_scalecorr |-> "image",
                relScaleImg |-> <<"own", "scaleimg">>]
    IN  IF s.scalecorr_default = "unset"
        THEN [raised |-> "AttributeError", this_scalecorr |-> "", relScaleImg |-> <<>>]
        ELSE IF opt = "None"
        THEN [raised |-> "", this_scalecorr |-> s.scalecorr_default,
              relScaleImg |-> s.relScaleImgDef]
        ELSE IF opt = "default"
        THEN IF s.scalecorr_default = "image" THEN own
             ELSE [raised |-> "", this_scalecorr |-> s.scalecorr_default,
                   relScaleImg |-> s.relScaleImgDef]
        ELSE IF opt = "image" THEN own
        ELSE IF opt = "none"
        THEN [raised |-> "", this_scalecorr |-> "none", relScaleImg |-> <<"1">>]
        ELSE IF loadable(opt)
        THEN [raised |-> "", this_scalecorr |-> opt, relScaleImg |-> <<opt, "scaleimg">>]
        ELSE [raised |-> "msgs.error", this_scalecorr |-> "", relScaleImg |-> <<>>]

\* the reference wavelength compute_DAR hands to correct_dar for an exposure
\* with the wavelengths waves, wave_ref being [none, val]
compute_DAR(waves, wave_ref) ==
    IF wave_ref.none THEN RMul(RHalf, RAdd(RMinOf(waves), RMaxOf(waves))) ELSE wave_ref.val

Construct ==
    /\ pc = "new"
    /\ self' = [align |-> effective_align(cfg), combine |-> cfg.combine,
                method |-> method_of(cfg),
                scalecorr_default |-> make_sensfunc(cfg).scalecorr_default,
                relScaleImgDef |-> make_sensfunc(cfg).relScaleImgDef,
                skysub_default |-> make_sensfunc(cfg).skysub_default,
                skyImgDef |-> make_sensfunc(cfg).skyImgDef,
                skySclDef |-> make_sensfunc(cfg).skySclDef,
                weights |-> ones(cfg.numfiles), spec_subpixel |-> 1, spat_subpixel |-> 1,
                dspat |-> <<>>, dwv |-> ROne, spatscale |-> <<>>,
                ifu_ra |-> <<>>, ifu_dec |-> <<>>,
                all_ra |-> <<>>, all_dec |-> <<>>, all_wave |-> <<>>, all_sci |-> <<>>,
                all_ivar |-> <<>>, all_idx |-> <<>>, all_wghts |-> <<>>,
                all_spatpos |-> <<>>, all_specpos |-> <<>>, all_spatid |-> <<>>,
                all_tilts |-> <<>>, all_slits |-> <<>>, all_align |-> <<>>,
                all_wcs |-> <<>>]
    /\ checked' = IF method_fatal(cfg) THEN {} ELSE check_outputs_names(cfg)
    /\ pc' = IF method_fatal(cfg) \/ check_outputs_fatal(cfg) \/ make_sensfunc(cfg).fatal
             THEN "fatal" ELSE "load"
    /\ msgs' = IF method_fatal(cfg)
               THEN Append(msgs \o align_warnings(cfg), <<"error", "method">>)
               ELSE IF check_outputs_fatal(cfg)
               THEN Append(msgs \o align_warnings(cfg), <<"error", "outputs">>)
               ELSE (IF make_sensfunc(cfg).warned
                     THEN Append(msgs \o align_warnings(cfg), <<"warn", "scale_corr">>)
                     ELSE msgs \o align_warnings(cfg))
                    \o (IF make_sensfunc(cfg).fatal
                        THEN <<<<"error", "skysub_frame">>>> ELSE <<>>)
    /\ stages' = Append(stages, "init")
    /\ UNCHANGED <<cfg, wl_full, loaded, ff, dd, cosdec, cube_grid, written, rounds>>
    /\ UNCHANGED <<accvars, fast_histogram>>

whitelight_range_of(c) == IF c.save_whitelight THEN "range" ELSE "None"

\* one iteration of the loop of load() over the spec2d files
LoadFrame ==
    /\ pc = "load"
    /\ ff < cfg.numfiles
    /\ \E sky \in {get_current_skysub(self, cfg.opts_skysub[ff + 1])} :
       \E scl \in {get_current_scalecorr(self, cfg.opts_scalecorr[ff + 1])} :
       IF sky.raised # "" \/ scl.raised # ""
       THEN /\ self' = [self EXCEPT !.ifu_ra = Append(@, ifu_ra_of(ff)),
                                    !.ifu_dec = Append(@, ifu_dec_of(ff))]
            /\ pc' = IF "AttributeError" \in {sky.raised, scl.raised}
                     THEN "crashed" ELSE "fatal"
            /\ msgs' = IF sky.raised = "msgs.error"
                       THEN Append(msgs, <<"error", "skysub_frame">>)
                       ELSE IF sky.raised = "" /\ scl.raised = "msgs.error"
                       THEN Append(msgs, <<"error", "scale_corr">>)
                       ELSE msgs
            /\ UNCHANGED <<ff, written, loaded>>
       ELSE /\ \E fr \in {frame_arrays(ff)} :
               \E numpix \in {Len(fr.all_ra)} :
               \E seen \in {[self EXCEPT !.ifu_ra = Append(@, ifu_ra_of(ff)),
                                         !.ifu_dec = Append(@, ifu_dec_of(ff)),
                                         !.all_wcs = Append(@, InstrumentGrid.wcs),
                                         !.spatscale = Append(@, spatscale_of(ff)),
                                         !.weights[ff + 1] = ROne]} :
               \E onward \in {IF ff + 1 = cfg.numfiles THEN "loaded" ELSE "load"} :
                   IF ~self.combine /\ ~self.align
                   THEN \E outfile \in
                               {IF cfg.numfiles = 1 /\ cfg.output_filename # ""
                                THEN get_output_filename("", cfg.output_filename, TRUE, -1)
                                ELSE get_output_filename(cfg.spec2d[ff + 1], cfg.output_filename,
                                                         self.combine, ff + 1)} :
                        \E res \in {generate_cube_subpixel(outfile,
                                       single_call(fr, ones(numpix), TheTilts, SlitsOf(2), AstromOf(2),
                                                   InstrumentGrid.wcs, InstrumentGrid.bins,
                                                   self.spec_subpixel, self.spat_subpixel),
                                       whitelight_range_of(cfg))} :
                            /\ self' = seen
                            /\ written' = IF res.raised THEN written ELSE Append(written, res)
                            /\ pc' = IF res.raised THEN "crashed" ELSE onward
                   ELSE /\ self' = [seen EXCEPT
                                       !.all_ra = @ \o fr.all_ra,
                                       !.all_dec = @ \o fr.all_dec,
                                       !.all_wave = @ \o fr.all_wave,
                                       !.all_sci = @ \o fr.all_sci,
                                       !.all_ivar = @ \o fr.all_ivar,
                                       !.all_idx = @ \o fr.all_idx,
                                       !.all_wghts = @ \o [i \in 1..numpix |->
                                           RDiv(RMul(seen.weights[ff + 1], ROne), seen.weights[1])],
                                       !.all_spatpos = @ \o fr.all_spatpos,
                                       !.all_specpos = @ \o fr.all_specpos,
                                       !.all_spatid = @ \o fr.all_spatid,
                                       !.all_tilts = Append(@, TheTilts),
                                       !.all_slits = Append(@, SlitsOf(2)),
                                       !.all_align = Append(@, AstromOf(2))]
                        /\ written' = written
                        /\ pc' = onward
            /\ ff' = ff + 1
            /\ msgs' = msgs
            /\ loaded' = Append(loaded,
                   [this_skysub |-> sky.this_skysub, skyImg |-> sky.skyImg,
                    skyScl |-> sky.skyScl, this_scalecorr |-> scl.this_scalecorr,
                    relScaleImg |-> scl.relScaleImg,
                    wave_ref |-> compute_DAR(frame_arrays(ff).all_wave,
                                             [none |-> TRUE, val |-> RZero])])
    /\ stages' = Append(stages, "load")
    /\ UNCHANGED <<cfg, wl_full, dd, cosdec, cube_grid, checked, rounds>>
    /\ UNCHANGED <<accvars, fast_histogram>>

\* coadd() returns after load() when it neither combines nor aligns
EarlyReturn ==
    /\ pc = "loaded"
    /\ ~self.combine /\ ~self.align
    /\ pc' = "done"
    /\ UNCHANGED <<cfg, wl_full, msgs, loaded, self, ff, dd, cosdec, cube_grid, checked,
                   written, stages, rounds>>
    /\ UNCHANGED <<accvars, fast_histogram>>

\* coadd goes from set_spatial_scale straight to compute_weights
after_scale_skip_align(align) == "weights"

\* coadd after set_spatial_scale: run_align if align is set, then
\* compute_weights
after_scale(align) == IF align THEN "align" ELSE "weights"

\* the warnings of set_spatial_scale for the scales of the exposures, one
\* pair <<pixel scale, slicer scale>> each: a column is warned about unless
\* every one of its entries differs from its first
scale_warnings(spatscale) ==
    LET column(j) == [k \in 1..Len(spatscale) |-> spatscale[k][j]]
        all_differ(x) == \A k \in 1..Len(x) : x[k] # x[1]
    IN  (IF ~all_differ(column(1)) THEN <<<<"warn", "pixel scales">>>> ELSE <<>>)
        \o (IF ~all_differ(column(2)) THEN <<<<"warn", "slicer scales">>>> ELSE <<>>)

\* set_spatial_scale; run_align is entered next when align is set.  After a
\* warning msgs.info is handed the sum of a str and the array of scales;
\* that sum is numpy's to form, outside this source, and the call either
\* returns or raises, which ends the run in "raised"
SetSpatialScale ==
    /\ pc = "loaded"
    /\ self.combine \/ self.align
    /\ \E raises \in (IF scale_warnings(self.spatscale) = <<>> THEN {FALSE} ELSE BOOLEAN) :
           IF raises
           THEN /\ pc' = "raised"
                /\ msgs' = Append(msgs, scale_warnings(self.spatscale)[1])
                /\ UNCHANGED <<self, cosdec>>
           ELSE /\ self' = [self EXCEPT !.dspat =
                               IF @ = <<>>
                               THEN RMaxOf([k \in 1..(2 * Len(self.spatscale)) |->
                                               self.spatscale[((k - 1) \div 2) + 1]
                                                             [((k - 1) % 2) + 1]])
                               ELSE @]
                /\ pc' = after_scale(self.align)
                /\ msgs' = msgs \o scale_warnings(self.spatscale)
                /\ cosdec' = IF self.align THEN cos_deg(np_mean(self.all_dec)) ELSE cosdec
    /\ stages' = Append(stages, "scale")
    /\ UNCHANGED <<cfg, wl_full, loaded, ff, dd, cube_grid, checked, written, rounds>>
    /\ UNCHANGED <<accvars, fast_histogram>>

\* the shift added to the first sample of exposure f only
apply_shift_first(coords, all_idx, f, shift) ==
    [i \in 1..Len(coords) |->
        IF all_idx[i] = f /\ \A j \in 1..(i - 1) : all_idx[j] # f
        THEN RAdd(coords[i], shift) ELSE coords[i]]

\* coords[all_idx == f] += shift, applied to every sample
apply_shift_all(coords, all_idx, f, shift) ==
    [i \in 1..Len(coords) |-> RAdd(coords[i], shift)]

\* coords[all_idx == f] += shift
apply_shift(coords, all_idx, f, shift) ==
    [i \in 1..Len(coords) |-> IF all_idx[i] = f THEN RAdd(coords[i], shift) ELSE coords[i]]

\* the loop over the exposures 0 .. n - 1 applying shifts[f + 1] to exposure f
RECURSIVE shift_frames(_, _, _, _)
shift_frames(coords, all_idx, shifts, n) ==
    IF n = 0 THEN coords
    ELSE apply_shift(shift_frames(coords, all_idx, shifts, n - 1), all_idx, n - 1, shifts[n])

\* the header coordinate of exposure f taken for that of the first one
ref_shift_reversed(ifu, f) == RSub(ifu[f + 1], ifu[1])

\* ref_shift_ra[f], ref_shift_dec[f]: ifu[0] - ifu[f]
ref_shift(ifu, f) == RSub(ifu[1], ifu[f + 1])

\* align_user_offsets
AlignUserOffsets ==
    /\ pc = "align"
    /\ cfg.ra_offset # "None"
    /\ \E ra_sh \in {[k \in 1..cfg.numfiles |->
                        RAdd(ref_shift(self.ifu_ra, k - 1),
                             RDiv(ra_offset_of(k - 1), RInt(3600)))]} :
       \E dec_sh \in {[k \in 1..cfg.numfiles |->
                        RAdd(ref_shift(self.ifu_dec, k - 1),
                             RDiv(dec_offset_of(k - 1), RInt(3600)))]} :
           self' = [self EXCEPT
                       !.all_ra = shift_frames(@, self.all_idx, ra_sh, cfg.numfiles),
                       !.all_dec = shift_frames(@, self.all_idx, dec_sh, cfg.numfiles)]
    /\ pc' = "weights"
    /\ cosdec' = <<>>
    /\ stages' = Append(stages, "align")
    /\ UNCHANGED <<cfg, wl_full, msgs, loaded, ff, dd, cube_grid, checked, written, rounds>>
    /\ UNCHANGED <<accvars, fast_histogram>>

\* np.argmax: the first index (from 0) of the largest element
np_argmax(xs) == (CHOOSE k \in 1..Len(xs) :
                     /\ \A j \in 1..Len(xs) : RLe(xs[j], xs[k])
                     /\ \A j \in 1..(k - 1) : RLt(xs[j], xs[k])) - 1

\* mnmx_wv[f]: the smallest and largest wavelength of the wavelength image
\* on the slits of exposure f (the same on all its slits).  "wide" images
\* reach beyond every valid sample of every exposure; "staggered" ones end at
\* the exposure's own first and last valid sample
mnmx_wv_of(c, f) ==
    IF c.waveimg = "wide" THEN <<Rat(-1, 4), RInt(2)>>
    ELSE <<Rat(f % 2, 4), RAdd(Rat(3, 2), Rat(f % 2, 4))>>

\* get_whitelight_range(np.max(mnmx_wv[:, :, 0]), np.min(mnmx_wv[:, :, 1]),
\* cubepar['whitelight_range']) for a whitelight_range of [None, None]
get_whitelight_range(c) ==
    <<RMaxOf([k \in 1..c.numfiles |-> mnmx_wv_of(c, k - 1)[1]]),
      RMinOf([k \in 1..c.numfiles |-> mnmx_wv_of(c, k - 1)[2]])>>

\* datacube.get_whitelight_pixels: the indices (from 1) of the samples
\* strictly inside the window, and the width of the window
get_whitelight_pixels(all_wave, min_wl, max_wl) ==
    IF RLt(min_wl, max_wl)
    THEN [ww |-> Ascending({i \in 1..Len(all_wave) :
                               RLt(min_wl, all_wave[i]) /\ RLt(all_wave[i], max_wl)}),
          wavediff |-> RSub(max_wl, min_wl)]
    ELSE [ww |-> [i \in 1..Len(all_wave) |-> i],
          wavediff |-> RSub(RMaxOf(all_wave), RMinOf(all_wave))]

\* the white light images as they would be if they were made again when the
\* loop over the exposures reaches exposure f
phase_inputs_rebuilt(built, rebuilt, reference_image, ref_idx, f) ==
    [ref |-> IF reference_image THEN <<>> ELSE rebuilt[ref_idx + 1], img |-> rebuilt[f + 1]]

\* the two images calculate_image_phase is called with for exposure f:
\* reference_image.copy(), <<>> standing for the image of the user, and
\* wl_imgs[:, :, f].  built are the images made before the loop over the
\* exposures; rebuilt are the images of the samples as they are when the loop
\* reaches exposure f, which the code does not make
phase_inputs(built, rebuilt, reference_image, ref_idx, f) ==
    [ref |-> IF reference_image THEN <<>> ELSE built[ref_idx + 1], img |-> built[f + 1]]

\* one round of the cross-correlation loop of run_align; sh[f] is what
\* calculate_image_phase returns for exposure f, in pixels
AlignRound ==
    /\ pc = "align"
    /\ cfg.ra_offset = "None"
    /\ dd < numiter
    /\ \E wl_pix \in {get_whitelight_pixels(self.all_wave, get_whitelight_range(cfg)[1],
                                             get_whitelight_range(cfg)[2])} :
       \E p \in {select(self, wl_pix.ww)} :
       \E g \in {create_wcs_cubepar(cfg.ranges @@ [reference_image |-> cfg.reference_image],
                                   p.all_ra, p.all_dec, p.all_wave,
                                   self.dspat, wl_pix.wavediff, TRUE)} :
       \E wl \in {generate_image_subpixel(p, self.all_tilts, self.all_slits,
                                         self.all_align, g.wcs, g.voxedges,
                                         self.spec_subpixel, self.spat_subpixel)} :
           IF Len(g.voxedges[3]) # 2 \/ wl.fatal
           THEN /\ pc' = "fatal"
                /\ UNCHANGED <<self, dd, rounds, cosdec>>
           ELSE \E sh \in [0..(cfg.numfiles - 1) -> ShiftVals] :
                \E ra_sh \in {[k \in 1..cfg.numfiles |->
                                    RDiv(RMul(sh[k - 1][1], self.dspat), cosdec)]} :
                \E dec_sh \in {[k \in 1..cfg.numfiles |->
                                    RMul(sh[k - 1][2], self.dspat)]} :
                       /\ self' = [self EXCEPT
                              !.all_ra = shift_frames(@, self.all_idx, ra_sh, cfg.numfiles),
                              !.all_dec = shift_frames(@, self.all_idx, dec_sh, cfg.numfiles)]
                       /\ rounds' = Append(rounds,
                              [all_ra |-> p.all_ra, all_dec |-> p.all_dec,
                               all_wave |-> p.all_wave,
                               wcs |-> g.wcs, voxedges |-> g.voxedges,
                               wl_imgs |-> wl.all_wl_imgs,
                               ref_idx |-> IF g.reference_image THEN -1
                                           ELSE np_argmax(self.weights),
                               ra_shift |-> ra_sh, dec_shift |-> dec_sh,
                               phase |->
                                   LET moved(j) ==
                                           [self EXCEPT
                                               !.all_ra = shift_frames(@, self.all_idx,
                                                                       ra_sh, j),
                                               !.all_dec = shift_frames(@, self.all_idx,
                                                                        dec_sh, j)]
                                       again(j) ==
                                           generate_image_subpixel(
                                               select(moved(j), wl_pix.ww), self.all_tilts,
                                               self.all_slits, self.all_align, g.wcs,
                                               g.voxedges, self.spec_subpixel,
                                               self.spat_subpixel).all_wl_imgs
                                   IN  [k \in 1..cfg.numfiles |->
                                           phase_inputs(wl.all_wl_imgs, again(k - 1),
                                                        g.reference_image,
                                                        np_argmax(self.weights), k - 1)],
                               spec_subpixel |-> self.spec_subpixel,
                               spat_subpixel |-> self.spat_subpixel])
                       /\ dd' = dd + 1
                       /\ pc' = IF dd + 1 = numiter THEN "weights" ELSE "align"
                       /\ cosdec' = IF dd + 1 = numiter THEN <<>> ELSE cosdec
    /\ stages' = Append(stages, "align")
    /\ UNCHANGED <<cfg, wl_full, msgs, loaded, ff, cube_grid, checked, written>>
    /\ UNCHANGED <<accvars, fast_histogram>>

\* compute_weights; w[f] is the weight datacube.compute_weights gives to the
\* samples of exposure f
ComputeWeights ==
    /\ pc = "weights"
    /\ IF cfg.numfiles = 1
       THEN /\ self' = [self EXCEPT !.all_wghts = ones(Len(self.all_sci))]
            /\ wl_full' = wl_full
       ELSE \E wl_pix \in {get_whitelight_pixels(self.all_wave,
                                get_whitelight_range(cfg)[1],
                                get_whitelight_range(cfg)[2])} :
            \E g \in {create_wcs_cubepar(
                          cfg.ranges @@ [reference_image |-> cfg.reference_image],
                          self.all_ra, self.all_dec, self.all_wave, self.dspat,
                          wl_pix.wavediff, TRUE)} :
            \E call \in {list_call(self, self.all_wghts, self.all_tilts, self.all_slits,
                                   self.all_align, g.wcs, g.voxedges, 1, 1)} :
            \E w \in [0..(cfg.numfiles - 1) -> WeightVals] :
               /\ wl_full' = [ww |-> wl_pix.ww, call |-> call,
                              img |-> plane0(subpixellate(call)[1])]
               /\ self' = [self EXCEPT !.all_wghts =
                              [i \in 1..Len(self.all_sci) |-> w[self.all_idx[i]]]]
    /\ pc' = "grid"
    /\ stages' = Append(stages, "weights")
    /\ UNCHANGED <<cfg, msgs, loaded, ff, dd, cosdec, cube_grid, checked, written, rounds>>
    /\ UNCHANGED <<accvars, fast_histogram>>

\* coadd: the grid of the output cubes
BuildGrid ==
    /\ pc = "grid"
    /\ cube_grid' = create_wcs_cubepar(cfg.ranges @@ [reference_image |-> cfg.reference_image],
                                       self.all_ra, self.all_dec, self.all_wave,
                                       self.dspat, self.dwv, FALSE)
    /\ pc' = "final"
    /\ ff' = 0
    /\ stages' = Append(stages, "grid")
    /\ UNCHANGED <<cfg, wl_full, msgs, loaded, self, dd, cosdec, checked, written, rounds>>
    /\ UNCHANGED <<accvars, fast_histogram>>

\* coadd with combine: one cube of all the samples
FinalCombine ==
    /\ pc = "final"
    /\ self.combine
    /\ \E outfile \in {get_output_filename("", cfg.output_filename, TRUE, -1)} :
       \E res \in {generate_cube_subpixel(outfile,
                      list_call(self, ones(Len(self.all_wghts)), self.all_tilts,
                                self.all_slits, self.all_align, cube_grid.wcs,
                                cube_grid.voxedges, self.spec_subpixel, self.spat_subpixel),
                      whitelight_range_of(cfg))} :
           /\ written' = IF res.raised THEN written ELSE Append(written, res)
           /\ pc' = IF res.raised THEN "crashed" ELSE "done"
    /\ stages' = Append(stages, "final")
    /\ UNCHANGED <<cfg, wl_full, msgs, loaded, self, ff, dd, cosdec, cube_grid, checked, rounds>>
    /\ UNCHANGED <<accvars, fast_histogram>>

\* coadd without combine: one iteration of the loop over the exposures
FinalFrame ==
    /\ pc = "final"
    /\ ~self.combine
    /\ ff < cfg.numfiles
    /\ \E outfile \in {get_output_filename("", cfg.output_filename, FALSE, ff)} :
       \E p \in {select(self, where_idx(self.all_idx, ff))} :
       \E res \in {generate_cube_subpixel(outfile,
                      single_call(p, ones(Len(p.all_wghts)), self.all_tilts[ff + 1],
                                  self.all_slits[ff + 1], self.all_align[ff + 1],
                                  cube_grid.wcs, cube_grid.voxedges,
                                  self.spec_subpixel, self.spat_subpixel),
                      whitelight_range_of(cfg))} :
           /\ written' = IF res.raised THEN written ELSE Append(written, res)
           /\ pc' = IF res.raised THEN "crashed"
                    ELSE IF ff + 1 = cfg.numfiles THEN "done" ELSE "final"
    /\ ff' = ff + 1
    /\ stages' = Append(stages, "final")
    /\ UNCHANGED <<cfg, wl_full, msgs, loaded, self, dd, cosdec, cube_grid, checked, rounds>>
    /\ UNCHANGED <<accvars, fast_histogram>>

Next ==
    \/ Construct
    \/ LoadFrame
    \/ EarlyReturn
    \/ SetSpatialScale
    \/ AlignUserOffsets
    \/ AlignRound
    \/ ComputeWeights
    \/ BuildGrid
    \/ FinalCombine
    \/ FinalFrame

Spec == Init /\ [][Next]_vars

\* the same run started from the inputs that vary the method
MethodInit ==
    /\ cfg \in {c @@ [spec2d |-> spec2d_of(c)] @@ UsualSources(c.numfiles) :
                  c \in MethodInputs}
    /\ pc = "new"
    /\ self = <<>>
    /\ ff = 0
    /\ dd = 0
    /\ cosdec = <<>>
    /\ cube_grid = <<>>
    /\ checked = {}
    /\ written = <<>>
    /\ stages = <<>>
    /\ msgs = <<>>
    /\ loaded = <<>>
    /\ wl_full = <<>>
    /\ rounds = <<>>
    /\ NoPass
    /\ fast_histogram \in BOOLEAN

MethodSpec == MethodInit /\ [][Next]_vars

(***************************************************************************)
(* Runs that differ in the standard cube and in the sources of the sky     *)
(* subtraction and of the scale correction; every exposure of a run has    *)
(* the same entry in opts.                                                 *)
(***************************************************************************)
ModeInputs ==
    {c @@ [reference_image |-> FALSE, output_filename |-> "cube",
           save_whitelight |-> FALSE, overwrite |-> FALSE, disk |-> {},
           method |-> "subpixel", spec_subpixel |-> 1, spat_subpixel |-> 1,
           waveimg |-> "wide", ranges |-> NoRanges,
           opts_skysub |-> [k \in 1..c.numfiles |-> c.sky_opt],
           opts_scalecorr |-> [k \in 1..c.numfiles |-> c.scale_opt]] :
        c \in {d \in [numfiles : 1..MaxFiles, combine : BOOLEAN, align : BOOLEAN,
                      ra_offset : {"None", "given"}, standard_cube : {"None", "std.fits"},
                      skysub_frame : {"None", "image", "ok.fits", "bad.fits"},
                      scale_corr : {"None", "image", "ok.fits", "bad.fits"},
                      sky_opt : {"None", "default", "image", "none", "ok.fits", "bad.fits"},
                      scale_opt : {"None", "default", "image", "none", "ok.fits",
                                   "bad.fits"}] :
                  /\ d.combine = d.align \/ d.ra_offset = "given"
                  /\ (d.skysub_frame = "image" /\ d.sky_opt = "default")
                        \/ (d.scale_corr = "None" /\ d.scale_opt = "None")}}

ModeInit ==
    /\ cfg \in {c @@ [spec2d |-> spec2d_of(c)] : c \in ModeInputs}
    /\ pc = "new"
    /\ self = <<>>
    /\ ff = 0
    /\ dd = 0
    /\ cosdec = <<>>
    /\ cube_grid = <<>>
    /\ checked = {}
    /\ written = <<>>
    /\ stages = <<>>
    /\ msgs = <<>>
    /\ loaded = <<>>
    /\ wl_full = <<>>
    /\ rounds = <<>>
    /\ NoPass
    /\ fast_histogram = TRUE

ModeSpec == ModeInit /\ [][Next]_vars

(***************************************************************************)
(* Runs that differ in the reach of the wavelength images.  With staggered *)
(* images the window common to all exposures leaves valid samples out;     *)
(* such runs are registered by the user's offsets or not at all.           *)
(***************************************************************************)
WeightInputs ==
    {c @@ [output_filename |-> "cube", save_whitelight |-> FALSE, overwrite |-> FALSE,
           disk |-> {}, method |-> "subpixel", spec_subpixel |-> MaxSubpixel,
           spat_subpixel |-> MaxSubpixel] @@ UsualSources(c.numfiles) :
        c \in {d \in [numfiles : 1..MaxFiles, combine : BOOLEAN, align : BOOLEAN,
                      ra_offset : {"None", "given"}, reference_image : BOOLEAN,
                      waveimg : {"wide", "staggered"}] :
                  d.waveimg = "staggered" =>
                      (d.ra_offset = "given" \/ ~effective_align(d))}}

WeightInit ==
    /\ cfg \in {c @@ [spec2d |-> spec2d_of(c)] : c \in WeightInputs}
    /\ pc = "new"
    /\ self = <<>>
    /\ ff = 0
    /\ dd = 0
    /\ cosdec = <<>>
    /\ cube_grid = <<>>
    /\ checked = {}
    /\ written = <<>>
    /\ stages = <<>>
    /\ msgs = <<>>
    /\ loaded = <<>>
    /\ wl_full = <<>>
    /\ rounds = <<>>
    /\ NoPass
    /\ fast_histogram = TRUE

WeightSpec == WeightInit /\ [][Next]_vars

(***************************************************************************)
(* Runs whose cubepar sets a wavelength range or step.  The cubes that     *)
(* load() makes itself take their wavelength axis from the instrument, so  *)
(* the runs that end in load() are given no range.                         *)
(***************************************************************************)
RangeInit ==
    /\ cfg \in {c @@ [spec2d |-> spec2d_of(c), reference_image |-> FALSE,
                       output_filename |-> "cube", save_whitelight |-> FALSE,
                       overwrite |-> FALSE, disk |-> {}, method |-> "subpixel",
                       spec_subpixel |-> MaxSubpixel, spat_subpixel |-> MaxSubpixel]
                     @@ UsualSources(c.numfiles) :
                  c \in {d \in [numfiles : 1..MaxFiles, combine : BOOLEAN, align : BOOLEAN,
                                ra_offset : {"None", "given"},
                                ranges : {[NoRanges EXCEPT !.wave_min = w1, !.wave_max = w2,
                                                           !.wave_delta = wd] :
                                              w1 \in {NotGiven, Given(Rat(1, 4))},
                                              w2 \in {NotGiven, Given(ROne)},
                                              wd \in {NotGiven, Given(Rat(1, 4))}}] :
                            \/ d.combine \/ d.ra_offset = "given"
                            \/ d.align /\ d.numfiles > 1
                            \/ d.ranges = NoRanges}}
    /\ pc = "new"
    /\ self = <<>>
    /\ ff = 0
    /\ dd = 0
    /\ cosdec = <<>>
    /\ cube_grid = <<>>
    /\ checked = {}
    /\ written = <<>>
    /\ stages = <<>>
    /\ msgs = <<>>
    /\ loaded = <<>>
    /\ wl_full = <<>>
    /\ rounds = <<>>
    /\ NoPass
    /\ fast_histogram = TRUE

RangeSpec == RangeInit /\ [][Next]_vars

(***************************************************************************)
(* load(): the samples of one exposure are sorted by wavelength, corrected *)
(* and put back in the order of the detector.  cfg holds the valid pixels  *)
(* (onslit_gpm) and the wavelength image on them, self what load() hands   *)
(* on.                                                                     *)
(***************************************************************************)
\* the permutations np.argsort(xs) may return: the order of equal elements
\* is that of the sorting routine
argsort_of(xs) ==
    {p \in [1..Len(xs) -> 1..Len(xs)] :
        /\ \A i, j \in 1..Len(xs) : i # j => p[i] # p[j]
        /\ \A r \in 1..(Len(xs) - 1) : RLe(xs[p[r]], xs[p[r + 1]])}

\* resrt, taken to be wvsrt itself
resort_same(wvsrt) == wvsrt

\* resrt = np.argsort(wvsrt)
resort(wvsrt) == np_argsort(Arr([k \in 1..Len(wvsrt) |-> RInt(wvsrt[k])]))

\* the images of the exposure at the pixel p = <<specpos, spatpos>>
image_at(img, p) ==
    CASE img = "raimg" -> Rat(4 * p[1] + p[2], 8)
      [] img = "decimg" -> Rat(p[2] - p[1], 8)
      [] img = "sciImg" -> RInt(1 + 4 * p[1] + p[2])
      [] img = "ivar" -> Rat(1, 1 + p[2])
      [] img = "dwaveimg" -> Rat(1 + p[1], 2)

\* what load() makes of the pixels pix (in the order of np.where) with the
\* wavelengths waveimg when np.argsort returns wvsrt.  The DAR and the
\* extinction correction are computed per element of the sorted wavelengths
load_arrays(pix, waveimg, wvsrt) ==
    LET ext(img) == Arr([k \in 1..Len(pix) |-> image_at(img, pix[k])])
        wave_ext == Arr([k \in 1..Len(pix) |-> waveimg[pix[k]]])
        wave_sort == Take(wave_ext, wvsrt)
        dwav_sort == Take(ext("dwaveimg"), wvsrt)
        wave_ref == compute_DAR(wave_sort, NotGiven)
        ra_corr(w) == RMul(Rat(1, 16), RSub(w, wave_ref))
        dec_corr(w) == RMul(Rat(-1, 16), RSub(w, wave_ref))
        extcorr(w) == RAdd(ROne, w)
        ra_sort == Arr([k \in 1..Len(pix) |->
                           RAdd(Take(ext("raimg"), wvsrt)[k], ra_corr(wave_sort[k]))])
        dec_sort == Arr([k \in 1..Len(pix) |->
                            RAdd(Take(ext("decimg"), wvsrt)[k], dec_corr(wave_sort[k]))])
        flux_sort == Arr([k \in 1..Len(pix) |->
                             RDiv(RMul(Take(ext("sciImg"), wvsrt)[k], extcorr(wave_sort[k])),
                                  dwav_sort[k])])
        ivar_sort == Arr([k \in 1..Len(pix) |->
                             RMul(RDiv(Take(ext("ivar"), wvsrt)[k],
                                       RMul(extcorr(wave_sort[k]), extcorr(wave_sort[k]))),
                                  RMul(dwav_sort[k], dwav_sort[k]))])
    IN  [all_ra |-> Take(ra_sort, resort(wvsrt)),
         all_dec |-> Take(dec_sort, resort(wvsrt)),
         all_wave |-> Take(wave_sort, resort(wvsrt)),
         all_sci |-> Take(flux_sort, resort(wvsrt)),
         all_ivar |-> Take(ivar_sort, resort(wvsrt)),
         all_specpos |-> Arr([k \in 1..Len(pix) |-> pix[k][1]]),
         all_spatpos |-> Arr([k \in 1..Len(pix) |-> pix[k][2]]),
         all_spatid |-> Arr([k \in 1..Len(pix) |-> SlitOfCol(pix[k][2])]),
         wvsrt |-> wvsrt]

SortInit ==
    /\ cfg \in {[waveimg |-> w] :
                  w \in UNION {[P -> {RZero, RHalf, ROne}] :
                                  P \in PixelSets(1) \cup PixelSets(2)}}
    /\ pc = "sort"
    /\ self = <<>>
    /\ ff = 0
    /\ dd = 0
    /\ cosdec = <<>>
    /\ cube_grid = <<>>
    /\ checked = {}
    /\ written = <<>>
    /\ stages = <<>>
    /\ msgs = <<>>
    /\ loaded = <<>>
    /\ wl_full = <<>>
    /\ rounds = <<>>
    /\ NoPass
    /\ fast_histogram = TRUE

\* load() has the samples of the exposure ready
LoadSorted ==
    /\ pc = "sort"
    /\ \E pix \in {PixelOrder(cfg.waveimg)} :
       \E wvsrt \in argsort_of(Arr([k \in 1..Len(pix) |-> cfg.waveimg[pix[k]]])) :
           self' = load_arrays(pix, cfg.waveimg, wvsrt)
    /\ pc' = "sorted"
    /\ UNCHANGED <<cfg, ff, dd, cosdec, cube_grid, checked, written, stages, msgs, loaded,
                   wl_full, rounds>>
    /\ UNCHANGED <<accvars, fast_histogram>>

SortSpec == SortInit /\ [][LoadSorted]_vars

(***************************************************************************)
(* CoAdd3D.create_wcs on its own: one call, with cube ranges in cubepar.   *)
(* cfg holds the arguments of the call and cube_grid what it returns.      *)
(***************************************************************************)
GridCalls ==
    {[all_ra |-> ra, all_dec |-> de, all_wave |-> wv, dspat |-> ds, dwv |-> RHalf,
      collapse |-> co,
      cubepar |-> [ra_min |-> r1, ra_max |-> r2, dec_min |-> d1, dec_max |-> d2,
                   wave_min |-> w1, wave_max |-> w2, wave_delta |-> wd,
                   reference_image |-> ri]] :
        ra \in {<<RZero, ROne>>, <<RHalf, RZero, RInt(2)>>},
        de \in {<<Rat(-1, 2), RHalf>>, <<RZero, ROne>>},
        wv \in {<<RZero, Rat(3, 4)>>, <<Rat(1, 4), Rat(3, 2), ROne>>},
        ds \in {RHalf, ROne},
        co \in BOOLEAN, ri \in BOOLEAN,
        r1 \in {NotGiven, Given(Rat(-1, 2))}, r2 \in {NotGiven, Given(RInt(3))},
        d1 \in {NotGiven, Given(Rat(1, 4))}, d2 \in {NotGiven, Given(Rat(1, 8))},
        w1 \in {NotGiven, Given(RHalf)}, w2 \in {NotGiven, Given(ROne)},
        wd \in {NotGiven, Given(Rat(2, 5))}}

GridInit ==
    /\ cfg \in GridCalls
    /\ pc = "create_wcs"
    /\ self = <<>>
    /\ ff = 0
    /\ dd = 0
    /\ cosdec = <<>>
    /\ cube_grid = <<>>
    /\ checked = {}
    /\ written = <<>>
    /\ stages = <<>>
    /\ msgs = <<>>
    /\ loaded = <<>>
    /\ wl_full = <<>>
    /\ rounds = <<>>
    /\ NoPass
    /\ fast_histogram = TRUE

\* the call of create_wcs returns
CreateWcs ==
    /\ pc = "create_wcs"
    /\ cube_grid' = create_wcs_cubepar(cfg.cubepar, cfg.all_ra, cfg.all_dec, cfg.all_wave,
                                       cfg.dspat, cfg.dwv, cfg.collapse)
    /\ pc' = "returned"
    /\ UNCHANGED <<cfg, self, ff, dd, cosdec, checked, written, stages, msgs, loaded,
                   wl_full, rounds>>
    /\ UNCHANGED <<accvars, fast_histogram>>

GridNext == CreateWcs

GridSpec == GridInit /\ [][GridNext]_vars

(***************************************************************************)
(* Where each sub-sample of each pixel lands, computed pixel by pixel and  *)
(* offset by offset from the geometry of the slit (not from the flattened  *)
(* arrays of the pass).                                                    *)
(***************************************************************************)
slit_geom(a, fr, sl) ==
    [rc |-> ra_coeff(a, fr, sl), dc |-> dec_coeff(a, fr, sl), spl |-> wave_spl(a, fr, sl)]

\* the voxel coordinate of the sub-sample of sample i at spectral offset so
\* and spatial offset po
sub_coord(a, g, fr, sl, i, so, po) ==
    LET spatial == transform(a.astrom_trans[fr + 1], sl,
                             RAdd(RInt(a.all_spatpos[i]), po),
                             RAdd(RInt(a.all_specpos[i]), so))
        tpos == RAdd(RMul(tilts_at(a.tilts[fr + 1], a.all_specpos[i], a.all_spatpos[i]),
                          RInt(a.slits[fr + 1].nspec - 1)), so)
        world == <<polyval(g.rc, spatial), polyval(g.dc, spatial),
                   interp1d(g.spl[1], g.spl[2], tpos)>>
    IN  wcs_world2pix(a.output_wcs, world)

\* the voxel the histogram routine in force gives the coordinate coord, the
\* call being made with the coordinates sample (an axis is -1 when
\* fast_histogram finds the coordinate outside the grid there)
sub_voxel(a, coord, sample) ==
    IF fast_histogram THEN voxel_of(coord, outshape(a.bins), binrng(a.bins))
    ELSE np_voxel_of(coord, outshape(a.bins), sample)

\* every sub-sample of iteration (fr, sl) as [i: its parent sample, vox: its
\* voxel], offsets first and pixels last
Landings(a, fr, sl) ==
    LET sel == this_sl(a, fr, sl)
        g == slit_geom(a, fr, sl)
        K == Len(sel)
        so == spec_offs(a)
        po == spat_offs(a)
        coords == Arr([c \in 1..(K * num_subpixels(a)) |->
                      LET k == ((c - 1) % K) + 1
                          m == (c - 1) \div K
                          u == (m % a.spec_subpixel) + 1
                          w == (m \div a.spec_subpixel) + 1
                      IN  sub_coord(a, g, fr, sl, sel[k], so[u], po[w])])
    IN  Arr([c \in 1..(K * num_subpixels(a)) |->
            [i |-> sel[((c - 1) % K) + 1], vox |-> sub_voxel(a, coords[c], coords)]])

\* the sub-samples of the first n iterations of the pass
RECURSIVE LandingsUpTo(_, _)
LandingsUpTo(a, n) ==
    IF n = 0 THEN <<>>
    ELSE LandingsUpTo(a, n - 1) \o Landings(a, Loop(a)[n][1], Loop(a)[n][2])

\* what one sub-sample of sample i is to add to each accumulator
FluxShare(a, i) == RDiv(RMul(RInt(a.all_sci[i]), a.all_wghts[i]), RInt(num_subpixels(a)))
VarShare(a, i) ==
    LET wn == RDiv(a.all_wghts[i], RInt(num_subpixels(a)))
    IN  RMul(inverse(RInt(a.all_ivar[i])), RMul(wn, wn))
WeightShare(a, i) == RDiv(a.all_wghts[i], RInt(num_subpixels(a)))

ExpectedSums(a, n) ==
    LET L == LandingsUpTo(a, n)
    IN  <<[v \in Voxels(outshape(a.bins)) |->
              RSum(Arr([c \in 1..Len(L) |->
                  IF L[c].vox = v THEN FluxShare(a, L[c].i) ELSE RZero]))],
          [v \in Voxels(outshape(a.bins)) |->
              RSum(Arr([c \in 1..Len(L) |->
                  IF L[c].vox = v THEN VarShare(a, L[c].i) ELSE RZero]))],
          [v \in Voxels(outshape(a.bins)) |->
              RSum(Arr([c \in 1..Len(L) |->
                  IF L[c].vox = v THEN WeightShare(a, L[c].i) ELSE RZero]))]>>

\* C1: in every state of a pass the three accumulators hold, voxel by voxel,
\* the sum over the sub-samples landed there so far of flux*weight/N,
\* variance*(weight/N)^2 and weight/N of the sub-sample's own parent pixel
C1_SubSampleShares ==
    <<flux_sum, var_sum, normcube>> = ExpectedSums(args, iter)

\* a finished pass with N > 1 in which two pixels of different flux share a
\* voxel and some pixel is split over two voxels
C1_Witness ==
    /\ apc = "returned"
    /\ num_subpixels(args) > 1
    /\ LET L == LandingsUpTo(args, iter)
       IN  /\ \E c, d \in 1..Len(L) :
                  /\ L[c].vox = L[d].vox
                  /\ L[c].vox \in Voxels(outshape(args.bins))
                  /\ L[c].i # L[d].i
                  /\ FluxShare(args, L[c].i) # FluxShare(args, L[d].i)
           /\ \E c, d \in 1..Len(L) :
                  /\ L[c].i = L[d].i
                  /\ L[c].vox # L[d].vox
                  /\ L[c].vox \in Voxels(outshape(args.bins))
                  /\ L[d].vox \in Voxels(outshape(args.bins))

\* the sum of a cube over all its voxels
cube_total(c) ==
    LET vs == Ascending({v[1] * 256 + v[2] * 16 + v[3] : v \in DOMAIN c})
    IN  RSum(Arr([e \in 1..Len(vs) |->
            c[<<vs[e] \div 256, (vs[e] \div 16) % 16, vs[e] % 16>>]]))

\* what the k-th pixel of iteration (fr, sl) adds to the flux accumulator,
\* summed over all voxels
pixel_total(a, fr, sl, k) ==
    LET N == num_subpixels(a)
        vc == vox_coord(a, fr, sl)
        w == sci_weights(a, fr, sl)
        own == Arr([e \in 1..Len(w) |->
                   IF (k - 1) * N < e /\ e <= k * N THEN w[e] ELSE RZero])
    IN  cube_total(IF fast_histogram
                   THEN histogramdd(vc, outshape(a.bins), binrng(a.bins), own)
                   ELSE np_histogramdd(vc, outshape(a.bins), own))

\* the number of sub-samples of sample i inside the grid, L being the
\* sub-samples of its iteration
InGridCount(a, L, i) ==
    Cardinality({c \in 1..Len(L) : L[c].i = i /\ L[c].vox \in Voxels(outshape(a.bins))})

OneByOne(a) == [a EXCEPT !.spec_subpixel = 1, !.spat_subpixel = 1]

\* C2 as stated: what a sample adds to flux_sum over all voxels is the same
\* for the subpixel factors of the pass as for the factors 1 x 1
C2_FluxSameForAllFactors ==
    iter > 0 =>
        LET it == Loop(args)[iter]
        IN  \A k \in 1..Len(this_sl(args, it[1], it[2])) :
                pixel_total(args, it[1], it[2], k)
                    = pixel_total(OneByOne(args), it[1], it[2], k)

\* C2: what a sample adds to flux_sum over all voxels is flux * weight times
\* the fraction of its sub-samples that the histogram routine bins (with
\* fast_histogram those inside the voxel grid, with numpy all of them),
\* hence flux * weight for any subpixel factors that keep all of them
\* binned; the whole flux accumulator sums to the total of these amounts
C2_FluxConservedInsideGrid ==
    iter > 0 =>
        LET it == Loop(args)[iter]
            sel == this_sl(args, it[1], it[2])
            Lit == Landings(args, it[1], it[2])
        IN  /\ \A k \in 1..Len(sel) :
                   LET n == InGridCount(args, Lit, sel[k])
                       got == pixel_total(args, it[1], it[2], k)
                   IN  /\ got = RMul(FluxShare(args, sel[k]), RInt(n))
                       /\ n = num_subpixels(args) =>
                              got = RMul(RInt(args.all_sci[sel[k]]), args.all_wghts[sel[k]])
            /\ cube_total(flux_sum) =
                   LET L == LandingsUpTo(args, iter)
                   IN  RSum(Arr([c \in 1..Len(L) |->
                           IF L[c].vox \in Voxels(outshape(args.bins))
                           THEN FluxShare(args, L[c].i) ELSE RZero]))

\* a pass with N > 1 where one pixel keeps all its sub-samples inside the grid
\* and another loses some but not all of them
C2_Witness ==
    /\ apc = "returned"
    /\ num_subpixels(args) > 1
    /\ LET it == Loop(args)[iter]
           sel == this_sl(args, it[1], it[2])
           Lit == Landings(args, it[1], it[2])
       IN  /\ \E k \in 1..Len(sel) :
                  /\ InGridCount(args, Lit, sel[k]) = num_subpixels(args)
                  /\ args.all_sci[sel[k]] # 0
           /\ \E k \in 1..Len(sel) :
                  /\ InGridCount(args, Lit, sel[k]) > 0
                  /\ InGridCount(args, Lit, sel[k]) < num_subpixels(args)
                  /\ args.all_sci[sel[k]] # 0

\* the nearest-grid-point cubes: every sample goes with its whole weight to
\* the voxel of its own right ascension, declination and wavelength
ngp_cubes(a) ==
    LET n == Len(a.all_ra)
        own == Arr([i \in 1..n |->
                   wcs_world2pix(a.output_wcs, <<a.all_ra[i], a.all_dec[i], a.all_wave[i]>>)])
        shape == outshape(a.bins)
        rng == binrng(a.bins)
        av == all_var(a)
    IN  normalise(
          <<histogramdd(own, shape, rng,
                Arr([i \in 1..n |-> RMul(RInt(a.all_sci[i]), a.all_wghts[i])])),
            histogramdd(own, shape, rng,
                Arr([i \in 1..n |-> RMul(av[i], RMul(a.all_wghts[i], a.all_wghts[i]))])),
            histogramdd(own, shape, rng, a.all_wghts)>>)

\* C3 as stated: with spec_subpixel = spat_subpixel = 1 the result of the
\* pass is the nearest-grid-point cube of the samples' own coordinates
C3_OneByOneIsNGP ==
    (apc # "loop" /\ args.spec_subpixel = 1 /\ args.spat_subpixel = 1)
        => <<datacube, varcube, bpmcube>> = ngp_cubes(args)

\* C4: after the normalisation flux = flux_sum / weight_sum and
\* variance = var_sum / weight_sum^2 where weight_sum > 0, and both are 0
\* where weight_sum = 0; the DataCube carries that flux and, as its error,
\* the square root of that variance (to the resolution of np_sqrt)
C4_Normalised ==
    /\ apc # "loop" =>
           \A v \in Voxels(outshape(args.bins)) :
               IF RLt(RZero, normcube[v])
               THEN /\ RMul(datacube[v], normcube[v]) = flux_sum[v]
                    /\ RMul(varcube[v], RMul(normcube[v], normcube[v])) = var_sum[v]
               ELSE /\ datacube[v] = RZero
                    /\ varcube[v] = RZero
    /\ apc = "written" =>
           \A v \in Voxels(outshape(args.bins)) :
               LET sig == final_cube.sig[v]
                   ulp == Rat(1, varcube[v][2] * SqrtRes)
               IN  /\ final_cube.flux[v] = datacube[v]
                   /\ RLe(RZero, sig)
                   /\ RLe(RMul(sig, sig), varcube[v])
                   /\ RLt(varcube[v], RMul(RAdd(sig, ulp), RAdd(sig, ulp)))

\* a written cube with a voxel of weight_sum other than 0 and 1 and nonzero
\* variance, with a variance that is not a perfect square, and an empty voxel
C4_Witness ==
    /\ apc = "written"
    /\ \E v \in Voxels(outshape(args.bins)) :
           /\ RLt(RZero, normcube[v])
           /\ normcube[v] # ROne
           /\ var_sum[v] # RZero
           /\ flux_sum[v] # RZero
    /\ \E v \in Voxels(outshape(args.bins)) :
           RMul(final_cube.sig[v], final_cube.sig[v]) # varcube[v]
    /\ \E v \in Voxels(outshape(args.bins)) : normcube[v] = RZero

\* C5: a voxel has weight_sum = 0 exactly when no sub-sample has landed in
\* it so far in the pass; in the result, and in the DataCube, a voxel is bad
\* exactly when its weight_sum is 0, and a bad voxel has flux 0
C5_BadIffNoWeight ==
    LET L == LandingsUpTo(args, iter)
    IN  /\ \A v \in Voxels(outshape(args.bins)) :
               (normcube[v] = RZero) <=> ~(\E c \in 1..Len(L) : L[c].vox = v)
        /\ apc # "loop" =>
               \A v \in Voxels(outshape(args.bins)) :
                   /\ bpmcube[v] \in {0, 1}
                   /\ (bpmcube[v] = 1) <=> (normcube[v] = RZero)
                   /\ (bpmcube[v] = 1) => (datacube[v] = RZero)
        /\ apc = "written" => final_cube.bpm = bpmcube

\* a written cube with a bad voxel and with a good voxel of flux 0
C5_Witness ==
    /\ apc = "written"
    /\ \E v \in Voxels(outshape(args.bins)) : final_cube.bpm[v] = 1
    /\ \E v \in Voxels(outshape(args.bins)) :
           final_cube.bpm[v] = 0 /\ final_cube.flux[v] = RZero

(***************************************************************************)
(* A run of SlicerIFUCoAdd3D: what its cubes hold.                         *)
(***************************************************************************)
\* the run has gone through coadd() to its end, or was ended by an exception
\* raised while a cube was being made
RunEnded == pc \in {"done", "crashed"}

\* the arguments of the final accumulation of a combining run, with the
\* samples weighted by wghts
combined_args(wghts) ==
    list_call(self, wghts, self.all_tilts, self.all_slits, self.all_align,
              cube_grid.wcs, cube_grid.voxedges, self.spec_subpixel, self.spat_subpixel)

\* C6: the cube of a combining run of several exposures is the accumulation
\* of the samples weighted by the weights compute_weights stored in all_wghts
C6_FinalUsesComputedWeights ==
    (pc = "done" /\ self.combine /\ cfg.numfiles > 1) =>
        written[1].final_cube.flux = subpixellate(combined_args(self.all_wghts))[1]

\* a combined cube written after compute_weights gave the exposures
\* different weights, and equal to the accumulation with every weight 1
C6_Witness ==
    /\ pc = "done" /\ self.combine /\ cfg.numfiles > 1
    /\ \E i, j \in 1..Len(self.all_wghts) : self.all_wghts[i] # self.all_wghts[j]
    /\ written[1].final_cube.flux = subpixellate(combined_args(ones(Len(self.all_wghts))))[1]
    /\ written[1].final_cube.flux # subpixellate(combined_args(self.all_wghts))[1]

\* the voxels in which a sub-sample of the pass a lands
landed_voxels(a) ==
    LET L == LandingsUpTo(a, Len(Loop(a)))
    IN  {L[c].vox : c \in 1..Len(L)} \cap Voxels(outshape(a.bins))

\* the good voxels of a written cube
good_voxels(cube) == {v \in DOMAIN cube.bpm : cube.bpm[v] = 0}

\* the pass over the samples of exposure f alone, on the grid of the run
own_args(f) ==
    IF self.align
    THEN LET p == select(self, where_idx(self.all_idx, f))
         IN  single_call(p, ones(Len(p.all_sci)), self.all_tilts[f + 1],
                         self.all_slits[f + 1], self.all_align[f + 1], cube_grid.wcs,
                         cube_grid.voxedges, self.spec_subpixel, self.spat_subpixel)
    ELSE single_call(frame_arrays(f), ones(Len(frame_arrays(f).all_sci)), TheTilts,
                     SlitsOf(2), AstromOf(2), InstrumentGrid.wcs, InstrumentGrid.bins,
                     self.spec_subpixel, self.spat_subpixel)

\* the number of cubes and what went into each, for the runs in cases
CubesAsClaimed(cases) ==
    (RunEnded /\ cases) =>
        IF self.combine
        THEN /\ Len(written) = 1
             /\ Len(self.all_sci) =
                    Len(PoolSamples([k \in 1..cfg.numfiles |-> Exposure(k - 1)], 0))
             /\ good_voxels(written[1].final_cube)
                    = landed_voxels(combined_args(ones(Len(self.all_sci))))
        ELSE /\ Len(written) = cfg.numfiles
             /\ \A k \in 1..cfg.numfiles :
                    good_voxels(written[k].final_cube) = landed_voxels(own_args(k - 1))

\* C7: a run with combine set makes exactly one cube, of the samples of all
\* the exposures; a run with combine unset makes exactly one cube per
\* exposure, each of the samples of its own exposure only
C7_OneCubeOrOnePerExposure == CubesAsClaimed(TRUE)

\* the same for the runs that save no white light image
C7_HoldsWithoutWhitelight == CubesAsClaimed(~cfg.save_whitelight)

\* a run of several exposures ended by the exception of generate_cube_subpixel
\* with no cube made
C7_Witness ==
    /\ pc = "crashed"
    /\ cfg.numfiles > 1
    /\ cfg.save_whitelight
    /\ written = <<>>

(***************************************************************************)
(* run_align in cross-correlation mode.                                    *)
(***************************************************************************)
\* registration by cross-correlation has run to its end
CrossCorrelated ==
    /\ pc \in {"weights", "grid", "final", "done", "crashed"}
    /\ self.align
    /\ cfg.ra_offset = "None"

\* coords with shifts[f + 1] added to every sample of exposure f
shifted_by(coords, shifts) ==
    [i \in 1..Len(coords) |-> RAdd(coords[i], shifts[self.all_idx[i] + 1])]

\* the white light images of the coordinates ra, dec on their own grid
images_of(ra, dec) ==
    LET p == [self EXCEPT !.all_ra = ra, !.all_dec = dec]
        g == create_wcs(cfg.reference_image, ra, dec, self.all_wave, self.dspat,
                        RSub(RMaxOf(self.all_wave), RMinOf(self.all_wave)), TRUE)
    IN  generate_image_subpixel(p, self.all_tilts, self.all_slits, self.all_align,
                                g.wcs, g.voxedges, self.spec_subpixel,
                                self.spat_subpixel).all_wl_imgs

\* C8: cross-correlation makes exactly two rounds; each round adds the shift
\* of an exposure to the RA and Dec of the samples of that exposure only, so
\* the coordinates after both rounds are those before plus both shifts, and
\* round 2 reads, and images, the coordinates shifted by round 1
C8_TwoCumulativeRounds ==
    /\ Len(rounds) <= 2
    /\ (pc = "align" /\ cfg.ra_offset = "None") => Len(rounds) = dd /\ dd < 2
    /\ CrossCorrelated =>
           /\ Len(rounds) = 2
           /\ rounds[2].all_ra = shifted_by(rounds[1].all_ra, rounds[1].ra_shift)
           /\ rounds[2].all_dec = shifted_by(rounds[1].all_dec, rounds[1].dec_shift)
           /\ self.all_ra = shifted_by(shifted_by(rounds[1].all_ra, rounds[1].ra_shift),
                                       rounds[2].ra_shift)
           /\ self.all_dec = shifted_by(shifted_by(rounds[1].all_dec, rounds[1].dec_shift),
                                        rounds[2].dec_shift)
           /\ pc = "weights" =>
                  rounds[2].wl_imgs = images_of(rounds[2].all_ra, rounds[2].all_dec)

\* two exposures registered: round 1 moved neither, round 2 was made all the
\* same and moved the second exposure only
C8_Witness ==
    /\ CrossCorrelated
    /\ cfg.numfiles = 2
    /\ \A k \in 1..2 : rounds[1].ra_shift[k] = RZero /\ rounds[1].dec_shift[k] = RZero
    /\ rounds[2].ra_shift[1] = RZero
    /\ rounds[2].ra_shift[2] # RZero
    /\ \E i, j \in 1..Len(self.all_ra) :
           /\ self.all_idx[i] = 0 /\ self.all_ra[i] = rounds[1].all_ra[i]
           /\ self.all_idx[j] = 1 /\ self.all_ra[j] # rounds[1].all_ra[j]

(***************************************************************************)
(* The order of the stages of coadd().                                     *)
(***************************************************************************)
stage_rank(st) ==
    CASE st = "init" -> 0
      [] st = "load" -> 1
      [] st = "scale" -> 2
      [] st = "align" -> 3
      [] st = "weights" -> 4
      [] st = "grid" -> 5
      [] st = "final" -> 6

\* how many times the stage st was entered
entered(st) == Cardinality({i \in 1..Len(stages) : stages[i] = st})

\* the rounds of a complete registration
full_registration ==
    IF ~self.align THEN 0 ELSE IF cfg.ra_offset # "None" THEN 1 ELSE 2

\* self.all_idx after load() has pooled n exposures once each, in order
PoolSamplesIdx(n) ==
    LET S == PoolSamples([k \in 1..n |-> Exposure(k - 1)], 0)
    IN  [i \in 1..Len(S) |-> S[i].idx]

\* C9: the stages of coadd() are entered in the order load, registration,
\* weights, grid, final accumulation: load() extracts every exposure once
\* before anything else, registration runs only if align is set and is
\* complete before the weights are computed, the weights are computed once
\* before the grid is built once, and the cubes follow; with neither combine
\* nor align the run ends after load() with nothing registered, weighted or
\* pooled
C9_StagesInOrder ==
    /\ \A i, j \in 1..Len(stages) :
           i < j => stage_rank(stages[i]) <= stage_rank(stages[j])
    /\ entered("load") <= cfg.numfiles
    /\ pc = "load" => entered("load") = ff
    /\ \A st \in {"init", "scale", "weights", "grid"} : entered(st) <= 1
    /\ pc # "new" =>
           /\ entered("scale") = 1 =>
                  /\ entered("load") = cfg.numfiles
                  /\ self.all_idx = PoolSamplesIdx(cfg.numfiles)
           /\ entered("align") > 0 => self.align /\ entered("scale") = 1
           /\ entered("align") <= full_registration
           /\ entered("weights") = 1 =>
                  entered("align") = full_registration /\ entered("scale") = 1
           /\ entered("grid") = 1 => entered("weights") = 1
           /\ entered("final") > 0 => entered("grid") = 1
           /\ entered("final") <= (IF self.combine THEN 1 ELSE cfg.numfiles)
           /\ (pc = "done" /\ (self.combine \/ self.align)) =>
                  entered("final") = (IF self.combine THEN 1 ELSE cfg.numfiles)
           /\ (~self.combine /\ ~self.align) =>
                  /\ \A i \in 1..Len(stages) : stage_rank(stages[i]) <= 1
                  /\ rounds = <<>>
                  /\ cube_grid = <<>>
                  /\ self.all_sci = <<>>
                  /\ self.all_wghts = <<>>
                  /\ pc = "done" => entered("load") = cfg.numfiles

\* a run of two exposures that registers by cross-correlation and writes a
\* cube per exposure, at its end
C9_Witness ==
    /\ pc = "done"
    /\ stages = <<"init", "load", "load", "scale", "align", "align", "weights", "grid",
                  "final", "final">>

(***************************************************************************)
(* The file names checked and the file names written.                      *)
(***************************************************************************)
\* the names handed to to_file so far
written_names == {written[k].outfile : k \in 1..Len(written)}

\* C10: the names check_outputs tested are the names the run writes, and no
\* run writes a file that exists when overwrite is unset
C10_CheckedEqualsWritten ==
    /\ pc = "done" => written_names = checked
    /\ \A f \in written_names : f \in cfg.disk => cfg.overwrite

\* a finished run that wrote a cube under a name check_outputs never tested
C10_Witness ==
    /\ pc = "done"
    /\ \E f \in written_names : f \notin checked
    /\ \E f \in checked : f \notin written_names

(***************************************************************************)
(* C11: the constructor and the resampling method.                         *)
(***************************************************************************)
\* C11: a constructor given a method name other than 'subpixel' or 'ngp'
\* ends in a fatal error with nothing loaded, whether or not fast-histogram
\* is installed
C11_BadMethodIsFatal ==
    (pc # "new" /\ lower(cfg.method) \notin {"subpixel", "ngp"}) =>
        /\ pc = "fatal"
        /\ stages = <<"init">>

\* the same restricted to the runs where fast-histogram is installed
C11_FatalWithFastHistogram ==
    (pc # "new" /\ fast_histogram /\ lower(cfg.method) \notin {"subpixel", "ngp"}) =>
        /\ pc = "fatal"
        /\ stages = <<"init">>
        /\ checked = {}

\* a run with an unsupported method name that wrote a cube
C11_Witness ==
    /\ pc = "done"
    /\ cfg.method = "resample"
    /\ ~fast_histogram
    /\ self.method = "ngp"
    /\ written # <<>>

(***************************************************************************)
(* C20: the oversampling factors of the passes of a run.                   *)
(***************************************************************************)
\* the factors the configuration asks for
configured_subpixel(c) ==
    IF method_of(c) = "subpixel" THEN <<c.spec_subpixel, c.spat_subpixel>> ELSE <<1, 1>>

\* the factors of every pass made so far for registration and for a cube
factors_used ==
    {<<rounds[k].spec_subpixel, rounds[k].spat_subpixel>> : k \in 1..Len(rounds)}
    \cup {<<written[k].spec_subpixel, written[k].spat_subpixel>> : k \in 1..Len(written)}

\* C20: every pass of a run uses the configured factors when the method is
\* 'subpixel' (fast-histogram installed), and 1 and 1 when it is 'ngp'
C20_PassesUseConfiguredFactors ==
    \A f \in factors_used : f = configured_subpixel(cfg)

\* what the code does: every pass of every run uses 1 and 1
C20_EveryPassUsesUnitFactors ==
    \A f \in factors_used : f = <<1, 1>>

\* a finished 'subpixel' run, configured for 2 x 2, that registered its two
\* exposures and wrote its cube
C20_Witness ==
    /\ pc = "done"
    /\ method_of(cfg) = "subpixel"
    /\ cfg.spec_subpixel = 2 /\ cfg.spat_subpixel = 2
    /\ Len(rounds) = 2
    /\ written # <<>>
    /\ factors_used = {<<1, 1>>}

(***************************************************************************)
(* C12: the checks on the lists of a pass.                                 *)
(***************************************************************************)
\* the three arguments are lists of the same length that differs from the
\* number of distinct frame indices of all_idx
idx_mismatch(c, a) ==
    /\ c.tilts > 0 /\ c.slits = c.tilts /\ c.astrom_trans = c.tilts
    /\ c.idx_given
    /\ np_unique_size(a.all_idx) # c.tilts

\* only some of the three are lists, or they are lists of different lengths
list_mismatch(c) ==
    \/ {c.tilts > 0, c.slits > 0, c.astrom_trans > 0} = {TRUE, FALSE}
    \/ c.tilts > 0 /\ c.slits > 0 /\ c.astrom_trans > 0
            /\ (c.slits # c.tilts \/ c.astrom_trans # c.tilts)

\* the checks are over
checks_done == apc \notin {"called", "idle"}

\* C12: a pass whose lists do not fit each other or the frame indices of
\* all_idx ends in a fatal error with no histogram updated
C12_MismatchIsFatal ==
    (checks_done /\ (list_mismatch(args.call)
                        \/ idx_mismatch(args.call, call_samples(args.call.nexp)))) =>
        /\ apc = "fatal"
        /\ iter = 0

\* what holds: lists that do not fit each other are fatal in both
\* functions; lists that do not fit the frame indices are fatal in
\* generate_image_subpixel without combine
C12_ListMismatchIsFatal ==
    /\ (checks_done /\ list_mismatch(args.call)) => (apc = "fatal" /\ iter = 0)
    /\ (checks_done /\ args.call.entry = "image" /\ ~args.call.combine
            /\ idx_mismatch(args.call, call_samples(args.call.nexp))) =>
           (apc = "fatal" /\ iter = 0)

\* subpixellate has returned cubes for one list entry and samples of two
\* exposure indices
C12_Witness ==
    /\ apc = "returned"
    /\ args.call.entry = "subpixellate"
    /\ args.call.tilts = 1 /\ args.call.slits = 1 /\ args.call.astrom_trans = 1
    /\ args.call.idx_given
    /\ np_unique_size(args.all_idx) = 2
    /\ \E v \in DOMAIN normcube : normcube[v] # RZero


(***************************************************************************)
(* The two histogram routines of subpixellate.                             *)
(***************************************************************************)
\* the accumulators after the first n iterations of the pass when every
\* update is made by fast_histogram (fast) or by numpy (not fast)
RECURSIVE accumulated_by(_, _, _)
accumulated_by(a, n, fast) ==
    IF n = 0
    THEN <<zeros(outshape(a.bins)), zeros(outshape(a.bins)), zeros(outshape(a.bins))>>
    ELSE IF fast
         THEN accumulate_fast(a, accumulated_by(a, n - 1, fast),
                              Loop(a)[n][1], Loop(a)[n][2])
         ELSE accumulate_numpy(a, accumulated_by(a, n - 1, fast),
                               Loop(a)[n][1], Loop(a)[n][2])

\* C19: in every state of a pass the flux-sum, variance-sum and weight-sum
\* cubes are those the other histogram routine would have produced from the
\* same samples on the same voxel grid
C19_BothHistogramsAgree ==
    <<flux_sum, var_sum, normcube>> = accumulated_by(args, iter, ~fast_histogram)

\* a finished pass without fast_histogram in which a sub-sample lies outside
\* the voxel grid and the weight accumulated over all voxels is not the
\* weight fast_histogram accumulates
C19_Witness ==
    /\ apc = "returned"
    /\ ~fast_histogram
    /\ <<flux_sum, var_sum, normcube>> = accumulated_by(args, iter, FALSE)
    /\ \E n \in 1..iter :
           \E e \in 1..Len(vox_coord(args, Loop(args)[n][1], Loop(args)[n][2])) :
               ~in_grid(vox_coord(args, Loop(args)[n][1], Loop(args)[n][2])[e],
                        outshape(args.bins), binrng(args.bins))
    /\ cube_total(normcube) # cube_total(accumulated_by(args, iter, TRUE)[3])


(***************************************************************************)
(* The sources of the sky subtraction and of the scale correction.         *)
(***************************************************************************)
\* the configured source names a spec2d file that cannot be loaded
unloadable_file(x) == x \notin {"None", "none", "", "image", "default"} /\ ~loadable(x)

logged(level, what) == \E i \in 1..Len(msgs) : msgs[i] = <<level, what>>

\* the exposure that load() was working on when the run ended in it
aborted_in_load == pc \in {"fatal", "crashed"} /\ Len(stages) > 1 /\ Len(loaded) = ff

\* C13 as stated: once the constructor has run, a default scale-correction
\* file or default sky frame that cannot be loaded has left the default mode
\* "none" and a warning in the log, and the run is aborted only in load(), at
\* an exposure whose own scale or sky file cannot be loaded
C13_UnloadableDefaultDegrades ==
    pc # "new" =>
        /\ unloadable_file(cfg.scale_corr) =>
               (self.scalecorr_default = "none" /\ logged("warn", "scale_corr"))
        /\ unloadable_file(cfg.skysub_frame) =>
               (self.skysub_default = "none" /\ logged("warn", "skysub_frame"))
        /\ pc \in {"fatal", "crashed"} =>
               /\ aborted_in_load
               /\ \/ unloadable_file(cfg.opts_skysub[ff + 1])
                  \/ unloadable_file(cfg.opts_scalecorr[ff + 1])

\* C13 for the scale correction of a run with a standard cube: an unloadable
\* default file leaves the default mode "none" and a warning and does not
\* end the run, and an exposure's own unloadable sky or scale file is fatal
C13_ScaleDefaultDegrades ==
    (pc # "new" /\ cfg.standard_cube # "None") =>
        /\ unloadable_file(cfg.scale_corr) =>
               (self.scalecorr_default = "none" /\ logged("warn", "scale_corr"))
        /\ (pc \in {"fatal", "crashed"} /\ ~unloadable_file(cfg.skysub_frame)) =>
               /\ pc = "fatal"
               /\ aborted_in_load
               /\ \/ unloadable_file(cfg.opts_skysub[ff + 1])
                  \/ unloadable_file(cfg.opts_scalecorr[ff + 1])
        /\ (pc \notin {"load", "fatal", "crashed"}) =>
               \A k \in 1..cfg.numfiles :
                   /\ ~unloadable_file(cfg.opts_skysub[k])
                   /\ ~unloadable_file(cfg.opts_scalecorr[k])

\* the constructor of a run with a standard cube has ended the run because
\* the default sky frame cannot be loaded
C13_Witness ==
    /\ pc = "fatal"
    /\ stages = <<"init">>
    /\ cfg.standard_cube # "None"
    /\ unloadable_file(cfg.skysub_frame)
    /\ logged("error", "skysub_frame")

\* a run whose default scale file cannot be loaded has gone through coadd()
\* to its end
C13_ScaleWitness ==
    /\ pc = "done"
    /\ unloadable_file(cfg.scale_corr)
    /\ logged("warn", "scale_corr")
    /\ Len(loaded) = cfg.numfiles

\* the default mode that the configured source src stands for
default_mode(src) ==
    IF src \in {"None", "none", ""} \/ unloadable_file(src) THEN "none" ELSE src

\* the mode of an exposure with the override opt under the default source src
resolved_mode(opt, src) == IF opt \in {"None", "default"} THEN default_mode(src) ELSE opt

\* C17 as stated: load() resolves the modes of every exposure it reaches;
\* the sky and the scale mode of a loaded exposure are its override when
\* that is 'image', 'none' or a file, and the global default otherwise; and
\* an exposure in mode 'image' uses its own sky model and scale image
C17_ModeResolutionOrder ==
    /\ ~(aborted_in_load /\ pc = "crashed")
    /\ \A k \in 1..Len(loaded) :
           /\ loaded[k].this_skysub = resolved_mode(cfg.opts_skysub[k], cfg.skysub_frame)
           /\ loaded[k].this_scalecorr
                  = resolved_mode(cfg.opts_scalecorr[k], cfg.scale_corr)
           /\ loaded[k].this_skysub = "image" =>
                  loaded[k].skyImg = <<"own", "skymodel">>
           /\ loaded[k].this_scalecorr = "image" =>
                  loaded[k].relScaleImg = <<"own", "scaleimg">>

\* C17 without the two cases in which it fails: in a run with a standard
\* cube the modes of every loaded exposure are as stated, and so are the
\* images except for the scale image of an exposure without override under
\* the default 'image'
C17_ResolutionWithDefaultsSet ==
    cfg # <<>> /\ cfg.standard_cube # "None" =>
        /\ ~(aborted_in_load /\ pc = "crashed")
        /\ \A k \in 1..Len(loaded) :
               /\ loaded[k].this_skysub
                      = resolved_mode(cfg.opts_skysub[k], cfg.skysub_frame)
               /\ loaded[k].this_scalecorr
                      = resolved_mode(cfg.opts_scalecorr[k], cfg.scale_corr)
               /\ loaded[k].this_skysub = "image" =>
                      loaded[k].skyImg = <<"own", "skymodel">>
               /\ (loaded[k].this_scalecorr = "image" /\ cfg.opts_scalecorr[k] # "None") =>
                      loaded[k].relScaleImg = <<"own", "scaleimg">>

\* an exposure without scale override was loaded under the default 'image'
C17_Witness ==
    /\ Len(loaded) > 0
    /\ cfg.scale_corr = "image"
    /\ cfg.opts_scalecorr[1] = "None"
    /\ loaded[1].this_scalecorr = "image"
    /\ loaded[1].relScaleImg = <<"1">>


(***************************************************************************)
(* The reference wavelength of the DAR correction.                         *)
(***************************************************************************)
\* 0.5 * (min + max) of the wavelengths of the valid samples of the k-th
\* exposure of the run
wave_midpoint(k) ==
    LET lo == CHOOSE x \in {frame_arrays(k - 1).all_wave[i] :
                               i \in 1..Len(frame_arrays(k - 1).all_wave)} :
                  \A i \in 1..Len(frame_arrays(k - 1).all_wave) :
                      RLe(x, frame_arrays(k - 1).all_wave[i])
        hi == CHOOSE x \in {frame_arrays(k - 1).all_wave[i] :
                               i \in 1..Len(frame_arrays(k - 1).all_wave)} :
                  \A i \in 1..Len(frame_arrays(k - 1).all_wave) :
                      RLe(frame_arrays(k - 1).all_wave[i], x)
    IN  RDiv(RAdd(lo, hi), RInt(2))

\* C14 as stated: the DAR reference wavelength of every exposure that
\* load() has prepared is the wavelength midpoint of the first exposure
C14_ReferenceIsFirstMidpoint ==
    \A k \in 1..Len(loaded) : loaded[k].wave_ref = wave_midpoint(1)

\* C14 as the code has it: the DAR reference wavelength of every exposure
\* is that exposure's own wavelength midpoint
C14_ReferenceIsOwnMidpoint ==
    \A k \in 1..Len(loaded) : loaded[k].wave_ref = wave_midpoint(k)

\* two exposures with different wavelength midpoints have been prepared
C14_Witness ==
    /\ Len(loaded) = 2
    /\ wave_midpoint(1) # wave_midpoint(2)
    /\ loaded[1].wave_ref = wave_midpoint(1)


(***************************************************************************)
(* Registration by the user's offsets.                                     *)
(***************************************************************************)
\* the array named field of the first n exposures as load() pooled them
RECURSIVE pooled(_, _)
pooled(field, n) ==
    IF n = 0 THEN <<>> ELSE pooled(field, n - 1) \o frame_arrays(n - 1)[field]

\* run_align has returned in a run with user offsets
UserAligned == cfg # <<>> /\ cfg.ra_offset # "None" /\ entered("align") > 0 /\ pc # "align"

\* C16: with user offsets run_align is entered once and makes no
\* cross-correlation round, and afterwards every sample of exposure f is
\* where load() put it plus (ifu_ra[0] - ifu_ra[f]) + ra_offset[f]/3600 in RA
\* and (ifu_dec[0] - ifu_dec[f]) + dec_offset[f]/3600 in Dec, so a sample of
\* the first exposure is moved by the user's offset alone
C16_UserOffsetsAppliedOnce ==
    /\ (cfg # <<>> /\ cfg.ra_offset # "None") => (rounds = <<>> /\ dd = 0)
    /\ UserAligned =>
           /\ entered("align") = 1
           /\ Len(self.all_ra) = Len(pooled("all_ra", cfg.numfiles))
           /\ \A i \in 1..Len(self.all_ra) :
                  LET f == self.all_idx[i]
                  IN  /\ self.all_ra[i] =
                             RAdd(pooled("all_ra", cfg.numfiles)[i],
                                  RAdd(RSub(ifu_ra_of(0), ifu_ra_of(f)),
                                       RDiv(ra_offset_of(f), RInt(3600))))
                      /\ self.all_dec[i] =
                             RAdd(pooled("all_dec", cfg.numfiles)[i],
                                  RAdd(RSub(ifu_dec_of(0), ifu_dec_of(f)),
                                       RDiv(dec_offset_of(f), RInt(3600))))
                      /\ f = 0 =>
                             /\ self.all_ra[i] =
                                    RAdd(pooled("all_ra", cfg.numfiles)[i],
                                         RDiv(ra_offset_of(0), RInt(3600)))
                             /\ self.all_dec[i] =
                                    RAdd(pooled("all_dec", cfg.numfiles)[i],
                                         RDiv(dec_offset_of(0), RInt(3600)))

\* a run of two exposures with different header coordinates and nonzero user
\* offsets has been registered by the offsets and has written its cube
C16_Witness ==
    /\ UserAligned
    /\ pc = "done"
    /\ cfg.numfiles = 2
    /\ ifu_ra_of(0) # ifu_ra_of(1)
    /\ ra_offset_of(0) # RZero
    /\ ra_offset_of(1) # ra_offset_of(0)
    /\ \E i \in 1..Len(self.all_ra) : self.all_idx[i] = 1
    /\ Len(written) > 0


(***************************************************************************)
(* The white light image of compute_weights.                               *)
(***************************************************************************)
\* compute_weights has returned
Weighted == cfg # <<>> /\ entered("weights") > 0

\* the arguments call with the weight of every sample outside ww set to 0,
\* so that such a sample adds nothing to any accumulator
without_others(call, ww) ==
    [call EXCEPT !.all_wghts =
        [i \in 1..Len(call.all_wghts) |->
            IF \E e \in 1..Len(ww) : ww[e] = i THEN call.all_wghts[i] ELSE RZero]]

\* C15 as stated: with more than one exposure compute_weights has made one
\* image, in one pass over the pooled samples of all exposures at 1 x 1, to
\* which the samples outside the common wavelength window add nothing; with
\* one exposure it has made no image and every weight is 1
C15_ImageFromWindowOnly ==
    Weighted =>
        IF cfg.numfiles = 1
        THEN /\ wl_full = <<>>
             /\ pc = "grid" => \A i \in 1..Len(self.all_wghts) : self.all_wghts[i] = ROne
        ELSE /\ wl_full # <<>>
             /\ wl_full.call.spec_subpixel = 1
             /\ wl_full.call.spat_subpixel = 1
             /\ wl_full.call.all_idx = self.all_idx
             /\ wl_full.call.all_sci = self.all_sci
             /\ wl_full.img
                    = plane0(subpixellate(without_others(wl_full.call, wl_full.ww))[1])

\* C15 as the code has it: the one image is made at 1 x 1 from all pooled
\* samples, whatever their wavelength, on a grid of one wavelength bin that
\* spans them all; with one exposure no image is made and every weight is 1
C15_ImageFromAllSamples ==
    Weighted =>
        IF cfg.numfiles = 1
        THEN /\ wl_full = <<>>
             /\ pc = "grid" => \A i \in 1..Len(self.all_wghts) : self.all_wghts[i] = ROne
        ELSE /\ wl_full # <<>>
             /\ wl_full.call.spec_subpixel = 1
             /\ wl_full.call.spat_subpixel = 1
             /\ wl_full.call.all_idx = self.all_idx
             /\ wl_full.call.all_sci = self.all_sci
             /\ wl_full.call.all_wave = self.all_wave
             /\ Len(wl_full.call.bins[3]) = 2
             /\ wl_full.call.output_wcs.crval[3] = RMinOf(self.all_wave)
             /\ wl_full.call.output_wcs.cdelt[3]
                    = RSub(RMaxOf(self.all_wave), RMinOf(self.all_wave))
             /\ wl_full.img = plane0(subpixellate(wl_full.call)[1])

\* two exposures with staggered wavelength images: some samples are inside
\* the common window and some outside, and the image has been made
C15_Witness ==
    /\ Weighted
    /\ cfg.numfiles = 2
    /\ cfg.waveimg = "staggered"
    /\ wl_full # <<>>
    /\ Len(wl_full.ww) > 0
    /\ Len(wl_full.ww) < Len(self.all_wave)

(***************************************************************************)
(* C18: the voxel counts and the bin edges of create_wcs.                  *)
(***************************************************************************)
\* a call of create_wcs has returned
wcs_returned == pc = "returned" /\ cube_grid # <<>>

\* the bound of an axis: the one of cubepar when set, else that of the data
bound_of(user, data) == IF user.none THEN data ELSE user.val

\* max - min of the three axes and the steps, from the arguments of the call
span_of(axis) ==
    IF axis = 1
    THEN RSub(bound_of(cfg.cubepar.ra_max, RMaxOf(cfg.all_ra)),
              bound_of(cfg.cubepar.ra_min, RMinOf(cfg.all_ra)))
    ELSE IF axis = 2
    THEN RSub(bound_of(cfg.cubepar.dec_max, RMaxOf(cfg.all_dec)),
              bound_of(cfg.cubepar.dec_min, RMinOf(cfg.all_dec)))
    ELSE RSub(bound_of(cfg.cubepar.wave_max, RMaxOf(cfg.all_wave)),
              bound_of(cfg.cubepar.wave_min, RMinOf(cfg.all_wave)))

step_of(axis) ==
    IF axis = 3 THEN bound_of(cfg.cubepar.wave_delta, cfg.dwv) ELSE cfg.dspat

\* the edges of an axis are count + 1 in number (none for a negative count)
\* and the k-th of them, counted from 0, is k - 0.5
edges_for(axis, count) ==
    LET e == cube_grid.voxedges[axis]
    IN  /\ Len(e) = (IF count < 0 THEN 0 ELSE count + 1)
        /\ \A k \in 0..(Len(e) - 1) : e[k + 1] = RSub(RInt(k), RHalf)
        /\ \A k \in 1..(Len(e) - 1) : RLt(e[k], e[k + 1])

\* x without its fractional part, and the integer nearest to x, the even one
\* of the two when x is half way
truncated(x) == IF RLe(RZero, x) THEN RFloor(x) ELSE -RFloor(RSub(RZero, x))
nearest(x) ==
    CHOOSE n \in RFloor(x)..(RFloor(x) + 1) :
        LET d == RSub(x, RInt(n))
            a == IF RLt(d, RZero) THEN RSub(RZero, d) ELSE d
        IN  RLt(a, RHalf) \/ (a = RHalf /\ n % 2 = 0)

\* C18 as stated, for a call without collapse and without a reference
\* image: every axis has floor((max - min) / step) voxels, the bounds being
\* those of cubepar when set and else those of the coordinates, and
\* count + 1 increasing edges, the k-th being k - 0.5
C18_CountsAreFloorOfSpan ==
    (wcs_returned /\ ~cfg.collapse /\ ~cfg.cubepar.reference_image)
        => \A axis \in 1..3 :
               edges_for(axis, RFloor(RDiv(span_of(axis), step_of(axis))))

\* C18: with the bounds of cubepar when set and else those of the
\* coordinates, the RA axis has int((max - min) * cos(mean Dec) / dspat)
\* voxels and the Dec axis int((max - min) / dspat), int dropping the
\* fraction, unless there is a reference image, whose shape they then take;
\* the wavelength axis has (max - min) / step rounded to the nearest integer,
\* the step being wave_delta of cubepar when set and else dwv, and one voxel
\* with collapse; every axis has count + 1 increasing edges (none for a
\* negative count), the k-th being k - 0.5
C18_CountsAsComputed ==
    wcs_returned
        => /\ edges_for(1, IF cfg.cubepar.reference_image THEN ReferenceGrid.shape[1]
                           ELSE truncated(RDiv(RMul(span_of(1),
                                                    cos_deg(np_mean(cfg.all_dec))),
                                               step_of(1))))
           /\ edges_for(2, IF cfg.cubepar.reference_image THEN ReferenceGrid.shape[2]
                           ELSE truncated(RDiv(span_of(2), step_of(2))))
           /\ edges_for(3, IF cfg.collapse THEN 1
                           ELSE nearest(RDiv(span_of(3), step_of(3))))

\* a call without collapse and reference image, with a range of cubepar
\* set, has returned fewer RA voxels and more wavelength voxels than
\* floor((max - min) / step)
C18_Witness ==
    /\ wcs_returned
    /\ ~cfg.collapse
    /\ ~cfg.cubepar.reference_image
    /\ ~cfg.cubepar.ra_max.none
    /\ ~cfg.cubepar.wave_min.none
    /\ Len(cube_grid.voxedges[1]) - 1 < RFloor(RDiv(span_of(1), step_of(1)))
    /\ Len(cube_grid.voxedges[3]) - 1 > RFloor(RDiv(span_of(3), step_of(3)))
    /\ Len(cube_grid.voxedges[2]) > 1

(***************************************************************************)
(* C21: the images that the estimates of a registration round read.        *)
(***************************************************************************)
\* C21: in every registration round the shift of every exposure is estimated
\* from the reference image and the image of that exposure as they were
\* made, for all exposures, from the coordinates the round started with;
\* the shifts the round has applied to other exposures change neither
C21_EstimatesReadImagesOfRoundStart ==
    \A d \in 1..Len(rounds) :
        /\ Len(rounds[d].phase) = cfg.numfiles
        /\ Len(rounds[d].wl_imgs) = cfg.numfiles
        /\ \A k \in 1..cfg.numfiles :
               /\ rounds[d].phase[k].img = rounds[d].wl_imgs[k]
               /\ rounds[d].phase[k].ref =
                      (IF cfg.reference_image THEN <<>>
                       ELSE rounds[d].wl_imgs[rounds[d].ref_idx + 1])
        /\ pc \in {"align", "weights"} =>
               rounds[d].wl_imgs = images_of(rounds[d].all_ra, rounds[d].all_dec)

\* a round of two exposures without a reference image of the user has moved
\* the first exposure, whose image is the reference, before it estimated the
\* shift of the second
C21_Witness ==
    /\ Len(rounds) >= 1
    /\ cfg.numfiles = 2
    /\ ~cfg.reference_image
    /\ rounds[1].ref_idx = 0
    /\ rounds[1].ra_shift[1] # RZero
    /\ rounds[1].dec_shift[1] # RZero
    /\ rounds[1].phase[2].ref = rounds[1].wl_imgs[1]
    /\ rounds[1].wl_imgs[1] # rounds[1].wl_imgs[2]

(***************************************************************************)
(* C22: the grid of a registration round.                                  *)
(***************************************************************************)
\* run_align has ended the run
aborted_in_align ==
    /\ pc = "fatal"
    /\ Len(stages) > 0
    /\ stages[Len(stages)] = "align"

\* C22: the grid of every registration round has one wavelength bin (two
\* edges), which starts at the smallest wavelength of the samples of the
\* round and is as wide as their range, whatever wave_min, wave_max and
\* wave_delta of cubepar; white light images are made on such a grid only,
\* and no run is ended by run_align's check of the wavelength edges
C22_RoundGridHasOneBin ==
    /\ \A d \in 1..Len(rounds) :
           /\ Len(rounds[d].voxedges[3]) = 2
           /\ rounds[d].voxedges[3] = <<Rat(-1, 2), RHalf>>
           /\ rounds[d].wcs.crval[3] = RMinOf(rounds[d].all_wave)
           /\ rounds[d].wcs.cdelt[3] =
                  RSub(RMaxOf(rounds[d].all_wave), RMinOf(rounds[d].all_wave))
    /\ ~aborted_in_align
    /\ (pc = "align" /\ cfg.ra_offset = "None") => Len(rounds) = dd

\* both rounds of a run were made whose cubepar sets wave_min, wave_max and
\* wave_delta to a range that is narrower than that of the samples and takes
\* more than one step
C22_Witness ==
    /\ Len(rounds) = 2
    /\ ~cfg.ranges.wave_min.none
    /\ ~cfg.ranges.wave_max.none
    /\ ~cfg.ranges.wave_delta.none
    /\ RLt(RMinOf(rounds[2].all_wave), cfg.ranges.wave_min.val)
    /\ RLt(cfg.ranges.wave_max.val, RMaxOf(rounds[2].all_wave))
    /\ RLt(cfg.ranges.wave_delta.val,
           RSub(cfg.ranges.wave_max.val, cfg.ranges.wave_min.val))
    /\ Len(rounds[2].wl_imgs) = cfg.numfiles

(***************************************************************************)
(* C23: the order of the samples that load() hands on.                     *)
(***************************************************************************)
\* C23: whatever permutation the sort by wavelength returns, the i-th RA,
\* Dec, wavelength, flux and inverse variance that load() hands on are those
\* of the i-th valid pixel in the order of the detector, each corrected for
\* the wavelength of that pixel, and the i-th spectral position, spatial
\* position and slit are that pixel's
C23_UnsortedIsDetectorOrder ==
    pc = "sorted" =>
        LET pix == PixelOrder(cfg.waveimg)
            w(i) == cfg.waveimg[pix[i]]
            ref == RMul(RHalf, RAdd(RMinOf(self.all_wave), RMaxOf(self.all_wave)))
        IN  /\ Len(self.all_ra) = Len(pix)
            /\ \A i \in 1..Len(pix) :
                   /\ self.all_specpos[i] = pix[i][1]
                   /\ self.all_spatpos[i] = pix[i][2]
                   /\ self.all_spatid[i] = SlitOfCol(pix[i][2])
                   /\ self.all_wave[i] = w(i)
                   /\ self.all_ra[i] =
                          RAdd(image_at("raimg", pix[i]), RMul(Rat(1, 16), RSub(w(i), ref)))
                   /\ self.all_dec[i] =
                          RAdd(image_at("decimg", pix[i]), RMul(Rat(-1, 16), RSub(w(i), ref)))
                   /\ self.all_sci[i] =
                          RDiv(RMul(image_at("sciImg", pix[i]), RAdd(ROne, w(i))), image_at("dwaveimg", pix[i]))
                   /\ self.all_ivar[i] =
                          RDiv(RMul(image_at("ivar", pix[i]),
                                    RMul(image_at("dwaveimg", pix[i]), image_at("dwaveimg", pix[i]))),
                               RMul(RAdd(ROne, w(i)), RAdd(ROne, w(i))))

\* three pixels, two of them of the same wavelength, were sorted by a
\* permutation that is not its own inverse and that puts the two equal ones
\* in the reverse of their order on the detector
C23_Witness ==
    /\ pc = "sorted"
    /\ Len(self.wvsrt) = 3
    /\ resort(self.wvsrt) # self.wvsrt
    /\ \E r \in 1..2 :
           /\ self.all_wave[self.wvsrt[r]] = self.all_wave[self.wvsrt[r + 1]]
           /\ self.wvsrt[r] > self.wvsrt[r + 1]

(***************************************************************************)
(* C24: the sub-sample offsets of a pass.                                  *)
(***************************************************************************)
\* C24: a pass with the factors spec_subpixel and spat_subpixel has
\* spec_subpixel * spat_subpixel sub-sample offsets per pixel, no two of them
\* the same; every offset is strictly between -0.5 and 0.5 in both
\* directions, the offsets sum to zero in each direction, and with the
\* factors 1 and 1 the one offset is (0, 0)
C24_OffsetsCentred ==
    apc # "idle" =>
        LET x == spat_x_flat(args)
            y == spec_y_flat(args)
            n == args.spec_subpixel * args.spat_subpixel
        IN  /\ Len(x) = n
            /\ Len(y) = n
            /\ Len(spec_offs(args)) = args.spec_subpixel
            /\ Len(spat_offs(args)) = args.spat_subpixel
            /\ \A m \in 1..n :
                   /\ RLt(Rat(-1, 2), x[m]) /\ RLt(x[m], RHalf)
                   /\ RLt(Rat(-1, 2), y[m]) /\ RLt(y[m], RHalf)
            /\ \A m, k \in 1..n : m # k => <<x[m], y[m]>> # <<x[k], y[k]>>
            /\ RSum(x) = RZero
            /\ RSum(y) = RZero
            /\ n = 1 => x = <<RZero>> /\ y = <<RZero>>

\* a pass that splits the pixels in the spectral direction only has
\* accumulated a slit
C24_Witness ==
    /\ apc = "loop"
    /\ iter >= 1
    /\ args.spec_subpixel = MaxSubpixel
    /\ args.spat_subpixel = 1
    /\ spec_y_flat(args)[1] # RZero

(***************************************************************************)
(* C25: the pool of samples that load() fills.                             *)
(***************************************************************************)
\* the pooled arrays of samples
pool_arrays ==
    <<self.all_ra, self.all_dec, self.all_wave, self.all_sci, self.all_ivar, self.all_idx,
      self.all_wghts, self.all_spatpos, self.all_specpos, self.all_spatid>>

C26_RegistrationTranslatesExposures ==
    [][pc = "align" =>
          /\ [self' EXCEPT !.all_ra = self.all_ra, !.all_dec = self.all_dec] = self
          /\ Len(self'.all_ra) = Len(self.all_ra)
          /\ Len(self'.all_dec) = Len(self.all_dec)
          /\ \A i, j \in 1..Len(self.all_idx) :
                 self.all_idx[i] = self.all_idx[j] =>
                     /\ RSub(self'.all_ra[i], self.all_ra[i])
                            = RSub(self'.all_ra[j], self.all_ra[j])
                     /\ RSub(self'.all_dec[i], self.all_dec[i])
                            = RSub(self'.all_dec[j], self.all_dec[j])]_vars

\* registration is over and has moved the samples of two exposures, each of
\* several samples, by different amounts in RA and in Dec
C26_Witness ==
    /\ pc = "weights"
    /\ self.align
    /\ cfg.numfiles = 2
    /\ \E i, j \in 1..Len(self.all_idx) :
           LET was == PoolSamples(<<Exposure(0), Exposure(1)>>, 0)
           IN  /\ self.all_idx[i] = 0
               /\ self.all_idx[j] = 1
               /\ RSub(self.all_ra[i], was[i].ra) # RSub(self.all_ra[j], was[j].ra)
               /\ RSub(self.all_dec[i], was[i].dec) # RSub(self.all_dec[j], was[j].dec)
               /\ self.all_wave[i] = was[i].wave
               /\ \E k \in 1..Len(self.all_idx) : k # j /\ self.all_idx[k] = 1

(***************************************************************************)
(* C27: the align flag after the constructor.                              *)
(***************************************************************************)
\* the align flag as the claim gives it
claimed_align ==
    IF cfg.ra_offset # "None" THEN TRUE
    ELSE IF cfg.numfiles = 1 /\ ~cfg.reference_image THEN FALSE
    ELSE cfg.align

\* the constructor sets the flag to False for a single exposure without a
\* reference image, and to True for the offsets of the user
set_to_false == cfg.numfiles = 1 /\ ~cfg.reference_image
set_to_true == cfg.ra_offset # "None"

\* C27 as stated: after construction the align flag is True with offsets of
\* the user, else False with one exposure and no reference image, else as
\* configured; and whenever the constructor has set the flag to a value other
\* than the one it had, it has logged a warning about it
C27_AlignFlagWarnsOnChange ==
    pc # "new" =>
        /\ self.align = claimed_align
        /\ (set_to_false /\ cfg.align) => logged("warn", "align to False")
        /\ (set_to_true /\ (set_to_false \/ ~cfg.align)) => logged("warn", "align to True")

\* C27 as the code has it: the flag is as claimed; the warning about False
\* is logged exactly when the flag was False already, and the warning about
\* True exactly when the flag is changed to True
C27_AlignFlagWarnsWhenUnset ==
    pc # "new" =>
        /\ self.align = claimed_align
        /\ logged("warn", "align to False") <=> (set_to_false /\ ~cfg.align)
        /\ logged("warn", "align to True")
               <=> (set_to_true /\ (set_to_false \/ ~cfg.align))

\* a run of one exposure without reference image and offsets was configured
\* to align; the constructor has set the flag to False and logged nothing
C27_Witness ==
    /\ pc = "load"
    /\ cfg.numfiles = 1
    /\ ~cfg.reference_image
    /\ cfg.ra_offset = "None"
    /\ cfg.align
    /\ ~self.align
    /\ msgs = <<>>

(***************************************************************************)
(* The default modes after construction.                                   *)
(***************************************************************************)
\* the constructor has returned
constructed == pc # "new" /\ ~(pc = "fatal" /\ stages = <<"init">>)

\* the default sky and scale modes and their images have been assigned
defaults_assigned ==
    /\ self.skysub_default # "unset"
    /\ self.scalecorr_default # "unset"
    /\ self.skyImgDef # <<"unset">>
    /\ self.skySclDef # <<"unset">>
    /\ self.relScaleImgDef # <<"unset">>

\* C28 as stated: once the constructor has returned, the default sky mode
\* and the default scale mode with their images are assigned, with or
\* without a standard cube, and load() never ends in reading a default that
\* was not assigned
C28_DefaultsInitialised ==
    constructed =>
        /\ defaults_assigned
        /\ ~(aborted_in_load /\ pc = "crashed")

\* C28 as the code has it: the defaults are assigned exactly in the runs
\* with a standard cube, and load() ends in an undefined default exactly at
\* the first exposure of a run without one
C28_DefaultsFollowStandardCube ==
    constructed =>
        /\ defaults_assigned <=> cfg.standard_cube # "None"
        /\ (aborted_in_load /\ pc = "crashed") =>
               (cfg.standard_cube = "None" /\ ff = 0 /\ loaded = <<>>)
        /\ (cfg.standard_cube = "None" /\ Len(stages) > 1) => pc = "crashed"

\* a constructed run without a standard cube has ended in load() at its
\* first exposure, the defaults never assigned
C28_Witness ==
    /\ pc = "crashed"
    /\ stages = <<"init", "load">>
    /\ cfg.standard_cube = "None"
    /\ self.skysub_default = "unset"
    /\ self.scalecorr_default = "unset"
    /\ loaded = <<>>

(***************************************************************************)
(* The sky override 'default' against no override.                         *)
(***************************************************************************)
\* an image as a value: the zero image times the exposure time is the zero
\* image
image_value(img) == IF img = <<"0", "*exptime">> THEN <<"0">> ELSE img

\* C29 as stated: an exposure loaded with the sky override 'default' has the
\* mode, the sky image and the sky relative-scale image that
\* get_current_skysub returns for it with no override
C29_DefaultOverrideIsNoOverride ==
    \A k \in 1..Len(loaded) :
        cfg.opts_skysub[k] = "default" =>
            LET plain == get_current_skysub(self, "None")
            IN  /\ loaded[k].this_skysub = plain.this_skysub
                /\ image_value(loaded[k].skyImg) = image_value(plain.skyImg)
                /\ image_value(loaded[k].skyScl) = image_value(plain.skyScl)

\* C29 as the code has it: the mode and the sky image are those of no
\* override; the relative-scale image is that of no override when the
\* default is 'image', and that of no override times the exposure time
\* otherwise
C29_DefaultOverrideScalesByExptime ==
    \A k \in 1..Len(loaded) :
        cfg.opts_skysub[k] = "default" =>
            LET plain == get_current_skysub(self, "None")
            IN  /\ loaded[k].this_skysub = plain.this_skysub
                /\ loaded[k].skyImg = plain.skyImg
                /\ loaded[k].skyScl
                       = IF self.skysub_default = "image" THEN plain.skyScl
                         ELSE Append(plain.skyScl, "*exptime")

\* an exposure was loaded with the override 'default' under a default sky
\* frame read from a file, and its relative-scale image is the file's times
\* the exposure time
C29_Witness ==
    /\ Len(loaded) > 0
    /\ cfg.opts_skysub[1] = "default"
    /\ cfg.skysub_frame = "ok.fits"
    /\ loaded[1].this_skysub = "ok.fits"
    /\ loaded[1].skyScl = <<"ok.fits", "scaleimg", "*exptime">>
    /\ get_current_skysub(self, "None").skyScl = <<"ok.fits", "scaleimg">>

(***************************************************************************)
(* The warnings of set_spatial_scale.                                      *)
(***************************************************************************)
\* set_spatial_scale has been called
scale_checked == \E i \in 1..Len(stages) : stages[i] = "scale"

\* some exposure's scale of column j differs from the first exposure's
scales_differ(j) == \E k \in 1..Len(self.spatscale) : self.spatscale[k][j] # self.spatscale[1][j]

\* the largest pixel or slicer scale of the exposures
largest_scale ==
    RMaxOf([k \in 1..(2 * Len(self.spatscale)) |->
               self.spatscale[((k - 1) \div 2) + 1][((k - 1) % 2) + 1]])

\* C30 as stated: once set_spatial_scale has been called, the warning about
\* the pixel scales was logged if and only if some exposure's pixel scale
\* differs from the first's, likewise for the slicer scales; with equal
\* scales the routine has completed; and the voxel size, none being given,
\* is the largest scale
C30_WarnsIffScalesDiffer ==
    scale_checked =>
        /\ logged("warn", "pixel scales") <=> scales_differ(1)
        /\ logged("warn", "slicer scales") <=> scales_differ(2)
        /\ (~scales_differ(1) /\ ~scales_differ(2)) => pc # "raised"
        /\ pc # "raised" => self.dspat = largest_scale

\* C30 as the code has it: the warning about the pixel scales is logged in
\* every call, equal scales included, and the one about the slicer scales in
\* every call that completes; a call that completes leaves the largest scale
\* as the voxel size
C30_WarnsInEveryCall ==
    scale_checked =>
        /\ logged("warn", "pixel scales")
        /\ pc # "raised" =>
               /\ logged("warn", "slicer scales")
               /\ self.dspat = largest_scale

\* set_spatial_scale has completed for several exposures of one and the same
\* pixel and slicer scale, and both warnings are in the log
C30_Witness ==
    /\ scale_checked
    /\ pc \notin {"raised", "loaded"}
    /\ cfg.numfiles > 1
    /\ ~scales_differ(1)
    /\ ~scales_differ(2)
    /\ logged("warn", "pixel scales")
    /\ logged("warn", "slicer scales")

====
